---- MODULE Spec2Model ----
(***************************************************************************)
(* Triadex: symbol resolution (resolver.py) and the quote orchestrator     *)
(* (providers.py).  Text is modelled as sequences of one-character         *)
(* strings, so that strip, upper, endswith, replace and the regular        *)
(* expression of the resolver are computed character by character.         *)
(***************************************************************************)
EXTENDS Integers, Sequences, FiniteSets, TLC

(***************************************************************************)
(* Python text primitives used by the resolver                             *)
(***************************************************************************)
LowerCase ==
    << "a", "b", "c", "d", "e", "f", "g", "h", "i", "j", "k", "l", "m",
       "n", "o", "p", "q", "r", "s", "t", "u", "v", "w", "x", "y", "z" >>

UpperCase ==
    << "A", "B", "C", "D", "E", "F", "G", "H", "I", "J", "K", "L", "M",
       "N", "O", "P", "Q", "R", "S", "T", "U", "V", "W", "X", "Y", "Z" >>

DigitChars == {"0", "1", "2", "3", "4", "5", "6", "7", "8", "9"}

WhitespaceChars == {" "}

IsUpperLetter(c) == \E i \in 1..26 : UpperCase[i] = c

IsDigit(c) == c \in DigitChars

\* str.upper() on one character
upper_char(c) ==
    IF \E i \in 1..26 : LowerCase[i] = c
    THEN UpperCase[CHOOSE i \in 1..26 : LowerCase[i] = c]
    ELSE c

\* str.upper()
upper(s) == [i \in 1..Len(s) |-> upper_char(s[i])]

RECURSIVE lstrip(_)
lstrip(s) ==
    IF s # << >> /\ Head(s) \in WhitespaceChars THEN lstrip(Tail(s)) ELSE s

RECURSIVE rstrip(_)
rstrip(s) ==
    IF s # << >> /\ s[Len(s)] \in WhitespaceChars
    THEN rstrip(SubSeq(s, 1, Len(s) - 1))
    ELSE s

\* str.strip()
strip(s) == rstrip(lstrip(s))

\* str.endswith(suffix)
endswith(s, suffix) ==
    /\ Len(s) >= Len(suffix)
    /\ SubSeq(s, Len(s) - Len(suffix) + 1, Len(s)) = suffix

startswith(s, prefix) ==
    /\ Len(s) >= Len(prefix)
    /\ SubSeq(s, 1, Len(prefix)) = prefix

\* str.replace(old, new): every non-overlapping occurrence, left to right
RECURSIVE replace(_, _, _)
replace(s, old, new) ==
    IF s = << >> THEN << >>
    ELSE IF startswith(s, old)
         THEN new \o replace(SubSeq(s, Len(old) + 1, Len(s)), old, new)
         ELSE << Head(s) >> \o replace(Tail(s), old, new)

(***************************************************************************)
(* resolver.py                                                             *)
(***************************************************************************)
SA == << ".", "S", "A" >>

ELEVEN == << "1", "1" >>

IBOV == << "I", "B", "O", "V" >>

WIN == << "W", "I", "N" >>

BVSP == << "^", "B", "V", "S", "P" >>

Ibovespa == << "I", "b", "o", "v", "e", "s", "p", "a" >>

ResolvedSymbol(symbol, exchange, name) ==
    [symbol |-> symbol, exchange |-> exchange, name |-> name]

\* the exception table
EXCEPTIONS ==
    [k \in {IBOV, WIN} |-> ResolvedSymbol(BVSP, "B3", Ibovespa)]

\* re.fullmatch(r"[A-Z]{lo,hi}\d{1,2}", s): lo..hi letters, then 1..2 digits
FullMatchLettersDigits(s, lo, hi) ==
    \E n \in lo..hi :
        /\ Len(s) \in {n + 1, n + 2}
        /\ \A i \in 1..n : IsUpperLetter(s[i])
        /\ \A i \in (n + 1)..Len(s) : IsDigit(s[i])

\* a plausible slip: the pattern accepts one digit only
looks_b3_stock_OneDigit(s0) ==
    LET s == upper(s0)
    IN  /\ Len(s) = 5
        /\ \A i \in 1..4 : IsUpperLetter(s[i])
        /\ IsDigit(s[5])

looks_b3_stock(s0) ==
    LET s == upper(s0)
    IN  FullMatchLettersDigits(s, 4, 4)

\* a plausible slip: the table is looked up with the text as typed and the
\* fallback keeps the text as typed
resolve_symbol_RawCase(q) ==
    LET raw == strip(q)
        u == upper(raw)
    IN  IF raw \in DOMAIN EXCEPTIONS
        THEN [raw |-> raw, rs |-> EXCEPTIONS[raw]]
        ELSE IF looks_b3_stock(u) /\ ~endswith(u, SA)
        THEN [raw |-> raw, rs |-> ResolvedSymbol(u \o SA, "B3", u)]
        ELSE IF endswith(u, ELEVEN) /\ ~endswith(u, SA)
        THEN [raw |-> raw, rs |-> ResolvedSymbol(u \o SA, "B3", u)]
        ELSE IF endswith(u, SA)
        THEN [raw |-> raw,
              rs |-> ResolvedSymbol(u, "B3", replace(u, SA, << >>))]
        ELSE [raw |-> raw, rs |-> ResolvedSymbol(raw, "AUTO", raw)]

\* a plausible slip: the equity rule passes the suffixed symbol as the name,
\* and the suffixed rule passes the stripped name as the symbol
resolve_symbol_Swapped(q) ==
    LET raw == strip(q)
        u == upper(raw)
    IN  IF u \in DOMAIN EXCEPTIONS
        THEN [raw |-> raw, rs |-> EXCEPTIONS[u]]
        ELSE IF looks_b3_stock(u) /\ ~endswith(u, SA)
        THEN [raw |-> raw, rs |-> ResolvedSymbol(u \o SA, "B3", u \o SA)]
        ELSE IF endswith(u, ELEVEN) /\ ~endswith(u, SA)
        THEN [raw |-> raw, rs |-> ResolvedSymbol(u \o SA, "B3", u)]
        ELSE IF endswith(u, SA)
        THEN [raw |-> raw,
              rs |-> ResolvedSymbol(replace(u, SA, << >>), "B3", u)]
        ELSE [raw |-> raw, rs |-> ResolvedSymbol(u, "AUTO", u)]

\* resolve_symbol(q) returns the pair (raw, ResolvedSymbol)
resolve_symbol(q) ==
    LET raw == strip(q)
        u == upper(raw)
    IN  IF u \in DOMAIN EXCEPTIONS
        THEN [raw |-> raw, rs |-> EXCEPTIONS[u]]
        ELSE IF looks_b3_stock(u) /\ ~endswith(u, SA)
        THEN [raw |-> raw, rs |-> ResolvedSymbol(u \o SA, "B3", u)]
        ELSE IF endswith(u, ELEVEN) /\ ~endswith(u, SA)
        THEN [raw |-> raw, rs |-> ResolvedSymbol(u \o SA, "B3", u)]
        ELSE IF endswith(u, SA)
        THEN [raw |-> raw,
              rs |-> ResolvedSymbol(u, "B3", replace(u, SA, << >>))]
        ELSE [raw |-> raw, rs |-> ResolvedSymbol(u, "AUTO", u)]

(***************************************************************************)
(* Python values carried by the upstream payloads: None, numbers, the      *)
(* non-finite floats and text.  A payload (a dict) is a function from the  *)
(* keys it holds to values.                                                *)
(***************************************************************************)
None == [t |-> "none", n |-> 0, s |-> ""]

Num(k) == [t |-> "num", n |-> k, s |-> ""]

NaN == [t |-> "nan", n |-> 0, s |-> ""]

\* float("inf") and float("-inf")
PosInf == [t |-> "inf", n |-> 1, s |-> ""]

NegInf == [t |-> "inf", n |-> 0 - 1, s |-> ""]

Str(x) == [t |-> "str", n |-> 0, s |-> x]

\* bool(v)
Truthy(v) ==
    CASE v.t = "none" -> FALSE
      [] v.t = "num" -> v.n # 0
      [] v.t = "str" -> v.s # ""
      [] OTHER -> TRUE

\* a or b
Or(a, b) == IF Truthy(a) THEN a ELSE b

\* dict.get(k)
Get(d, k) == IF k \in DOMAIN d THEN d[k] ELSE None

\* text that float() accepts
NumericText == [x \in {"5"} |-> 5]

\* float(v) raises ValueError on text that is no number
FloatRaises(v) == v.t = "str" /\ v.s \notin DOMAIN NumericText

\* float(v) if v is not None else None
OptFloat(v) ==
    IF v.t = "str" /\ v.s \in DOMAIN NumericText THEN Num(NumericText[v.s])
    ELSE v

(***************************************************************************)
(* providers.py: adapters                                                  *)
(***************************************************************************)
\* symbol.upper().endswith(".SA")
brl_if_b3(symbol) == IF endswith(upper(symbol), SA) THEN "BRL" ELSE "USD"

QuoteInternal(last, pct, cur, source, mcap, mcur, volume, conf, notes) ==
    [price |-> [last |-> last, change_pct |-> pct,
                currency |-> cur, source |-> source],
     market_cap |-> [value |-> mcap, currency |-> mcur],
     volume |-> [value |-> volume],
     status |-> [confidence |-> conf, notes |-> notes]]

NOTE_NO_CHANGE == "Exibindo ultimo preco/fechamento (var. diaria indisponivel)"

NOTE_STOOQ == "Ultimo fechamento obtido via Stooq"

NOTE_INVALID == "Preco invalido ou ausente"

NOTE_CURRENCY == "Moeda inferida automaticamente"

brapi_last(data) ==
    Or(Or(Get(data, "regularMarketPrice"), Get(data, "close")),
       Get(data, "price"))

brapi_change_pct(data) ==
    Or(Get(data, "regularMarketChangePercent"), Get(data, "changePercent"))

brapi_volume(data) ==
    Or(Get(data, "regularMarketVolume"), Get(data, "volume"))

\* parse_brapi raises when one of its float() conversions does
parse_brapi_raises(data) ==
    \/ FloatRaises(brapi_last(data))
    \/ FloatRaises(brapi_change_pct(data))
    \/ FloatRaises(Get(data, "marketCap"))
    \/ FloatRaises(brapi_volume(data))

parse_brapi(symbol, data) ==
    LET currency == Or(Get(data, "currency"), Str(brl_if_b3(symbol)))
    IN  QuoteInternal(OptFloat(brapi_last(data)),
                      OptFloat(brapi_change_pct(data)),
                      currency, "brapi",
                      OptFloat(Get(data, "marketCap")), currency,
                      OptFloat(brapi_volume(data)),
                      "high", << >>)

parse_yahoo_raises(data) ==
    \/ FloatRaises(Get(data, "last"))
    \/ FloatRaises(Get(data, "market_cap"))
    \/ FloatRaises(Get(data, "volume"))
    \/ FloatRaises(Get(data, "change_pct"))

\* a plausible slip: the adapter keeps the source label of the one it was
\* copied from
parse_yahoo_SourceBrapi(symbol, data) ==
    LET currency == Or(Get(data, "currency"), Str(brl_if_b3(symbol)))
        notes == IF Get(data, "change_pct") = None
                 THEN << NOTE_NO_CHANGE >> ELSE << >>
    IN  QuoteInternal(OptFloat(Get(data, "last")),
                      OptFloat(Get(data, "change_pct")),
                      currency, "brapi",
                      OptFloat(Get(data, "market_cap")), currency,
                      OptFloat(Get(data, "volume")),
                      IF notes # << >> THEN "medium" ELSE "high", notes)

\* a plausible slip: the caveat note does not lower the confidence
parse_yahoo_AlwaysHigh(symbol, data) ==
    LET currency == Or(Get(data, "currency"), Str(brl_if_b3(symbol)))
        notes == IF Get(data, "change_pct") = None
                 THEN << NOTE_NO_CHANGE >> ELSE << >>
    IN  QuoteInternal(OptFloat(Get(data, "last")),
                      OptFloat(Get(data, "change_pct")),
                      currency, "yahoo",
                      OptFloat(Get(data, "market_cap")), currency,
                      OptFloat(Get(data, "volume")),
                      "high", notes)

parse_yahoo(symbol, data) ==
    LET currency == Or(Get(data, "currency"), Str(brl_if_b3(symbol)))
        notes == IF Get(data, "change_pct") = None
                 THEN << NOTE_NO_CHANGE >> ELSE << >>
    IN  QuoteInternal(OptFloat(Get(data, "last")),
                      OptFloat(Get(data, "change_pct")),
                      currency, "yahoo",
                      OptFloat(Get(data, "market_cap")), currency,
                      OptFloat(Get(data, "volume")),
                      IF notes # << >> THEN "medium" ELSE "high", notes)

parse_stooq_raises(data) ==
    \/ FloatRaises(Get(data, "last"))
    \/ FloatRaises(Get(data, "volume"))

\* a plausible slip: the closing-price adapter labels its quote as Yahoo's
\* and as fully reliable
parse_stooq_AsYahoo(symbol, data) ==
    LET currency == Or(Get(data, "currency"), Str(brl_if_b3(symbol)))
    IN  QuoteInternal(OptFloat(Get(data, "last")), None, currency, "yahoo",
                      None, currency, OptFloat(Get(data, "volume")),
                      "high", << NOTE_STOOQ >>)

parse_stooq(symbol, data) ==
    LET currency == Or(Get(data, "currency"), Str(brl_if_b3(symbol)))
    IN  QuoteInternal(OptFloat(Get(data, "last")), None, currency, "stooq",
                      None, currency, OptFloat(Get(data, "volume")),
                      "medium", << NOTE_STOOQ >>)

\* math.isnan(x) or x <= 0, for a float x
InvalidPrice(v) ==
    \/ v.t = "nan"
    \/ (v.t = "num" /\ v.n <= 0)
    \/ (v.t = "inf" /\ v.n < 0)

\* a plausible slip: only a negative price counts as invalid
validate_Negative(q) ==
    LET q1 == IF q.price.last # None
                 /\ (q.price.last.t = "nan"
                     \/ (q.price.last.t = "num" /\ q.price.last.n < 0))
              THEN [q EXCEPT !.status.notes = Append(@, NOTE_INVALID),
                             !.status.confidence = "low"]
              ELSE q
    IN  IF ~Truthy(q1.price.currency)
        THEN [q1 EXCEPT !.price.currency = Str(brl_if_b3(<< "X" >> \o SA)),
                        !.status.notes = Append(@, NOTE_CURRENCY)]
        ELSE q1

\* a plausible slip: the note is appended and the confidence is left alone
validate_NoteOnly(q) ==
    LET q1 == IF q.price.last # None /\ InvalidPrice(q.price.last)
              THEN [q EXCEPT !.status.notes = Append(@, NOTE_INVALID)]
              ELSE q
    IN  IF ~Truthy(q1.price.currency)
        THEN [q1 EXCEPT !.price.currency = Str(brl_if_b3(<< "X" >> \o SA)),
                        !.status.notes = Append(@, NOTE_CURRENCY)]
        ELSE q1

\* QuoteOrchestrator._validate: mutates the quote in place
validate(q) ==
    LET q1 == IF q.price.last # None /\ InvalidPrice(q.price.last)
              THEN [q EXCEPT !.status.notes = Append(@, NOTE_INVALID),
                             !.status.confidence = "low"]
              ELSE q
    IN  IF ~Truthy(q1.price.currency)
        THEN [q1 EXCEPT !.price.currency = Str(brl_if_b3(<< "X" >> \o SA)),
                        !.status.notes = Append(@, NOTE_CURRENCY)]
        ELSE q1

(***************************************************************************)
(* Inputs of the resolver: letters, then digits, then an ending, typed in  *)
(* upper or lower case, with or without surrounding blanks; and the        *)
(* tickers of tests/test_resolver.py.                                      *)
(***************************************************************************)
MaxLetters == 4

MaxDigits == 2

SeqsUpTo(S, n) == UNION {[1..k -> S] : k \in 0..n}

lower_char(c) ==
    IF \E i \in 1..26 : UpperCase[i] = c
    THEN LowerCase[CHOOSE i \in 1..26 : UpperCase[i] = c]
    ELSE c

lower(s) == [i \in 1..Len(s) |-> lower_char(s[i])]

InputEndings == { << >>, SA, << "S", "A" >>, << ".", "S" >> }

InputBodies ==
    { l \o d \o e : l \in SeqsUpTo({"W", "I", "N"}, MaxLetters),
                    d \in SeqsUpTo({"1", "4"}, MaxDigits),
                    e \in InputEndings }

TestInputs ==
    { << "P", "E", "T", "R", "4" >>, << "p", "e", "t", "r", "4" >>,
      << "V", "A", "L", "E", "3" >>, << "I", "V", "V", "B", "1", "1" >>,
      << "A", "A", "P", "L" >>, << "B", "O", "V", "A", "1", "1" >>,
      IBOV, << "i", "B", "o", "v" >>, << "W", "i", "n" >>, BVSP,
      << "P", "e", "t", "r", "4", ".", "s", "A" >>,
      << "X", ".", "S", "A", ".", "S", "A" >>,
      << "A", " ", "1", "1" >>, << "1", "1" >>, << "4", "W" >> }

ResolverInputs ==
    { p \o b \o p : p \in { << >>, << " " >> },
                    b \in InputBodies \cup {lower(x) : x \in InputBodies} }
    \cup TestInputs

(***************************************************************************)
(* providers.py: QuoteOrchestrator                                         *)
(***************************************************************************)
CACHE_TTL == 30

\* f-string formatting of a text into the key
RECURSIVE Text(_)
Text(chars) == IF chars = << >> THEN "" ELSE Head(chars) \o Text(Tail(chars))

\* a plausible slip: the key leaves the preference out
cache_key_SymbolOnly(resolved, prefer) == Text(resolved.symbol) \o ":auto"

\* cache_key = f"{resolved.symbol}:{prefer or 'auto'}"
cache_key(resolved, prefer) ==
    Text(resolved.symbol) \o ":" \o Or(prefer, Str("auto")).s

RECURSIVE Remove(_, _)
\* list.remove(x): drops the first occurrence
Remove(list, x) ==
    IF list = << >> THEN << >>
    ELSE IF Head(list) = x THEN Tail(list)
    ELSE << Head(list) >> \o Remove(Tail(list), x)

InList(x, list) == \E i \in 1..Len(list) : list[i] = x

\* a plausible slip: the preferred provider is appended, not put first
provider_order_PreferLast(tok, prefer) ==
    LET providers == IF tok THEN << "brapi", "yahoo", "stooq" >>
                     ELSE << "yahoo", "stooq" >>
    IN  IF prefer.t = "str" /\ InList(prefer.s, providers)
        THEN Remove(providers, prefer.s) \o << prefer.s >>
        ELSE providers

\* a plausible slip: the preferred provider is put first without asking
\* whether it is among the configured ones
provider_order_PreferUnchecked(tok, prefer) ==
    LET providers == IF tok THEN << "brapi", "yahoo", "stooq" >>
                     ELSE << "yahoo", "stooq" >>
    IN  IF prefer.t = "str" /\ prefer.s \in {"brapi", "yahoo", "stooq"}
        THEN << prefer.s >> \o Remove(providers, prefer.s)
        ELSE providers

\* the providers list of get_quote, after the prefer adjustment
provider_order(tok, prefer) ==
    LET providers == IF tok THEN << "brapi", "yahoo", "stooq" >>
                     ELSE << "yahoo", "stooq" >>
    IN  IF prefer.t = "str" /\ InList(prefer.s, providers)
        THEN << prefer.s >> \o Remove(providers, prefer.s)
        ELSE providers

\* TTLCache.__contains__: present and not expired
cache_has(c, key) == key \in DOMAIN c /\ c[key].age < CACHE_TTL

\* a plausible slip: a key that has an entry keeps it (setdefault)
cache_set_KeepFirst(c, key, q) ==
    [k \in DOMAIN c \cup {key} |->
        IF k = key /\ k \notin DOMAIN c THEN [quote |-> q, age |-> 0] ELSE c[k]]

\* TTLCache.__setitem__: insert or overwrite, with a fresh expiry
cache_set(c, key, q) ==
    [k \in DOMAIN c \cup {key} |->
        IF k = key THEN [quote |-> q, age |-> 0] ELSE c[k]]

\* the passing of d seconds: entries that reach the TTL are gone
Aged(c, d) ==
    LET live == {k \in DOMAIN c : c[k].age + d < CACHE_TTL}
    IN  [k \in live |-> [c[k] EXCEPT !.age = @ + d]]

EmptyDict == [k \in {} |-> None]

NoQuote == QuoteInternal(None, None, None, "", None, None, None, "", << >>)

NoRet == [kind |-> "none", quote |-> NoQuote, error |-> ""]

\* a plausible slip: exhaustion synthesises an empty quote labelled with the
\* last provider's confidence instead of raising
ExhaustedResult_Medium(symbol, last_error) ==
    [kind |-> "quote",
     quote |-> QuoteInternal(Num(0), None, None, "none", None, None, None,
                             "medium", << >>),
     error |-> ""]

\* self.cache[key] of a key that has no live entry: KeyError(key)
KeyErrorResult(key) ==
    [kind |-> "error", quote |-> NoQuote, error |-> "'" \o key \o "'"]

\* raise RuntimeError(f"Todas as fontes falharam para {symbol}. {last_error or ''}")
ExhaustedResult(symbol, last_error) ==
    [kind |-> "error", quote |-> NoQuote,
     error |-> "Todas as fontes falharam para " \o Text(symbol) \o ". "
               \o last_error]

(***************************************************************************)
(* Bounds of the orchestrator runs                                         *)
(***************************************************************************)
NumCalls == 2

MaxCalls == 2

MaxCallsCache == 3

TickStep == 15

Calls == 1..NumCalls

Tickers == { << "P", "E", "T", "R", "4" >>, << "i", "b", "o", "v" >> }

Resolved == {resolve_symbol(t).rs : t \in Tickers}

Prefers == {None, Str("brapi"), Str("yahoo"), Str("stooq"), Str("auto")}

BrapiPayloads ==
    { ("regularMarketPrice" :> Num(5)) @@ ("regularMarketChangePercent" :> Num(2))
        @@ ("currency" :> Str("BRL")) @@ ("marketCap" :> Num(7))
        @@ ("regularMarketVolume" :> Num(9)),
      ("regularMarketPrice" :> Num(0 - 1)),
      ("regularMarketPrice" :> Str("n/a")),
      ("regularMarketPrice" :> Num(0)) @@ ("regularMarketChangePercent" :> Num(0))
        @@ ("currency" :> Str("BRL")) @@ ("marketCap" :> Num(0))
        @@ ("regularMarketVolume" :> Num(0)),
      EmptyDict }

YahooPayloads ==
    { ("last" :> Num(5)) @@ ("change_pct" :> Num(2)) @@ ("currency" :> Str("BRL"))
        @@ ("market_cap" :> Num(7)) @@ ("volume" :> Num(9)),
      ("last" :> Num(5)) @@ ("change_pct" :> None) @@ ("currency" :> None),
      ("last" :> None) @@ ("change_pct" :> None) @@ ("market_cap" :> Num(7)),
      ("last" :> Num(0)) @@ ("change_pct" :> Num(0)) @@ ("currency" :> None)
        @@ ("market_cap" :> Num(0)) @@ ("volume" :> Num(0)) }

StooqPayloads(symbol) ==
    { ("last" :> Num(5)) @@ ("volume" :> Num(9))
        @@ ("currency" :> Str(brl_if_b3(symbol))) @@ ("asof" :> Str("2024-01-02")),
      ("last" :> Num(0)) @@ ("volume" :> None)
        @@ ("currency" :> Str(brl_if_b3(symbol))) @@ ("asof" :> Str("2024-01-02")) }
    \* the Close cell of the last row reads nan, inf or -inf, all of which
    \* float() accepts
    \cup { ("last" :> x) @@ ("volume" :> None)
              @@ ("currency" :> Str(brl_if_b3(symbol)))
              @@ ("asof" :> Str("2024-01-02")) : x \in {NaN, PosInf, NegInf} }

Response(k, d) == [k |-> k, data |-> d]

\* no fetch is under way
NoResponse == Response("", EmptyDict)

\* what one HTTP attempt of fetch_brapi ends in: a failure (status, JSON,
\* empty results, exception, timeout) or results[0]
BrapiResponses ==
    {Response("fail", EmptyDict)} \cup {Response("data", d) : d \in BrapiPayloads}

\* What fetch_yahoo_sync ends in: None, an exception, or the out dict; or
\* it does not end.  YF_TIMEOUT is defined and never handed to a yfinance
\* call, so a request that Yahoo never answers waits as long as the
\* library lets it, which is no deadline of this code.
YahooResponses ==
    {Response("none", EmptyDict), Response("raise", EmptyDict),
     Response("stall", EmptyDict)}
    \cup {Response("data", d) : d \in YahooPayloads}

\* what fetch_stooq ends in: None or the row dict
StooqResponses(symbol) ==
    {Response("none", EmptyDict)}
    \cup {Response("data", d) : d \in StooqPayloads(symbol)}

(***************************************************************************)
(* app/services/data_provider.py: the payloads and the three providers.    *)
(* A fetch function ends with None or with a payload; the mutants below    *)
(* let it end with an exception as well.                                   *)
(***************************************************************************)
DP_TTL == 60

\* _is_b3_code: (len in (5, 6) and last character a digit) or ends in "11"
\* or ends in ".SA"
dp_is_b3_code(raw) ==
    LET t == strip(upper(raw))
    IN  \/ (Len(t) \in {5, 6} /\ IsDigit(t[Len(t)]))
        \/ endswith(t, ELEVEN)
        \/ endswith(t, SA)

\* _resolve_symbol
dp_resolve_symbol(raw) ==
    LET t == strip(upper(raw))
    IN  IF endswith(t, SA) THEN t
        ELSE IF dp_is_b3_code(t) THEN t \o SA
        ELSE t

\* _ok(x): not None, no NaN and no infinity
dp_ok(x) == x.t \notin {"none", "nan", "inf"}

\* _build_payload, without updated_at
dp_build_payload(symbol, name, last, pct, cur, source, conf, mcap, vol, notes) ==
    [ticker |-> symbol, name |-> name,
     price |-> [last |-> last, change_pct |-> pct, currency |-> cur,
                source |-> source],
     market_cap |-> mcap, volume |-> vol, confidence |-> conf, notes |-> notes]

NoPayload ==
    dp_build_payload(<< >>, None, None, None, "", "", "", None, None, "")

\* "BRL" if symbol.endswith(".SA") else "USD"
dp_currency(symbol) == IF endswith(symbol, SA) THEN "BRL" ELSE "USD"

\* (last / prev - 1) * 100, in whole percents
dp_pct(last, prev) == Num(((last.n * 100) \div prev.n) - 100)

FetchNone == [kind |-> "none", data |-> NoPayload]

FetchRaise == [kind |-> "raise", data |-> NoPayload]

FetchPayload(d) == [kind |-> "payload", data |-> d]

\* what Yahoo does for a ticker: an exception somewhere in yfinance, or the
\* values last price, previous close and currency
DpYahooAnswers ==
    { [k |-> "raise", last |-> None, prev |-> None, currency |-> None],
      [k |-> "data", last |-> None, prev |-> None, currency |-> None],
      [k |-> "data", last |-> Num(5), prev |-> Num(4), currency |-> Str("BRL")],
      [k |-> "data", last |-> Num(5), prev |-> Num(0), currency |-> None] }

\* a plausible slip: the function has no try/except around its body
dp_fetch_yahoo_NoExcept(symbol, resp) ==
    IF resp.k = "raise" THEN FetchRaise
    ELSE IF ~dp_ok(resp.last) THEN FetchNone
    ELSE FetchPayload(dp_build_payload(
             symbol, Str("name"), resp.last,
             IF dp_ok(resp.prev) /\ Truthy(resp.prev)
             THEN dp_pct(resp.last, resp.prev) ELSE None,
             Or(resp.currency, Str(dp_currency(symbol))).s,
             "yahoo", "medium", None, None, "Yahoo Finance"))

\* _fetch_yahoo
dp_fetch_yahoo(symbol, resp) ==
    IF resp.k = "raise" THEN FetchNone
    ELSE IF ~dp_ok(resp.last) THEN FetchNone
    ELSE FetchPayload(dp_build_payload(
             symbol, Str("name"), resp.last,
             IF dp_ok(resp.prev) /\ Truthy(resp.prev)
             THEN dp_pct(resp.last, resp.prev) ELSE None,
             Or(resp.currency, Str(dp_currency(symbol))).s,
             "yahoo", "medium", None, None, "Yahoo Finance"))

\* what BRAPI does: an exception or a timeout, a status other than 200,
\* a body without results, or results[0]
DpBrapiAnswers ==
    { [k |-> "raise", q0 |-> EmptyDict],
      [k |-> "status", q0 |-> EmptyDict],
      [k |-> "data", q0 |-> EmptyDict],
      [k |-> "data",
       q0 |-> ("regularMarketPrice" :> Num(5))
                @@ ("regularMarketChangePercent" :> Num(2))
                @@ ("currency" :> Str("BRL")) @@ ("marketCap" :> Num(7))
                @@ ("regularMarketVolume" :> Num(9))] }

\* _fetch_brapi, from the answer to its request on
dp_fetch_brapi(symbol, resp) ==
    IF resp.k # "data" THEN FetchNone
    ELSE FetchPayload(dp_build_payload(
             symbol, Or(Get(resp.q0, "longName"), Get(resp.q0, "shortName")),
             Or(Get(resp.q0, "regularMarketPrice"), Get(resp.q0, "close")),
             Get(resp.q0, "regularMarketChangePercent"),
             Or(Get(resp.q0, "currency"), Str("BRL")).s,
             "brapi", "high", Get(resp.q0, "marketCap"),
             Get(resp.q0, "regularMarketVolume"), "Fonte BRAPI"))

\* what Stooq does: an exception, a status other than 200 or an empty
\* body, or the closes of the last two rows
DpStooqAnswers ==
    { [k |-> "raise", last |-> None, prev |-> None],
      [k |-> "status", last |-> None, prev |-> None],
      [k |-> "data", last |-> Num(5), prev |-> None],
      [k |-> "data", last |-> Num(5), prev |-> Num(4)] }

\* _fetch_stooq
dp_fetch_stooq(symbol, resp) ==
    IF resp.k # "data" THEN FetchNone
    ELSE FetchPayload(dp_build_payload(
             symbol, Str("name"), resp.last,
             IF Truthy(resp.prev) THEN dp_pct(resp.last, resp.prev) ELSE None,
             dp_currency(symbol), "stooq", "low", None, None,
             "Fechamento do ultimo pregao (Stooq)"))

\* the payload of step 4 of get_quote
dp_unavailable(symbol) ==
    dp_build_payload(symbol, None, None, None, dp_currency(symbol),
                     "unavailable", "none", None, None,
                     "Todas as fontes de preco indisponiveis no momento")

NumDpCalls == 2

MaxDpCalls == 3

DpTickStep == 30

DpCalls == 1..NumDpCalls

DpTickers == { << "p", "e", "t", "r", "4" >>, << "A", "A", "P", "L" >> }

DpIdleCall ==
    [pc |-> "idle", symbol |-> << >>, hit |-> FALSE, tried |-> << >>,
     ret |-> [kind |-> "none", data |-> NoPayload]]

\* the module after import: an empty _CACHE and no call
DpStart ==
    [cache |-> [k \in {} |-> [data |-> NoPayload, age |-> 0]],
     calls |-> [c \in DpCalls |-> DpIdleCall],
     running |-> 0, ncalls |-> 0,
     contacts |-> [p \in {"yahoo", "brapi", "stooq"} |-> 0]]

\* the pair the cache is meant to be keyed by: (symbol, prefer or "auto")
PairOf(resolved, prefer) == << resolved.symbol, Or(prefer, Str("auto")).s >>

VARIABLES
    rq,           \* the text handed to resolve_symbol
    rpc,          \* "off", "input", "resolved", "again"
    rres,         \* resolve_symbol(rq)
    rres2,        \* resolve_symbol applied to the symbol of rres
    token,        \* BRAPI_TOKEN is set
    cache,        \* _CACHE: key -> [quote, age]
    calls,        \* the get_quote coroutines, one record per slot
    running,      \* the coroutine that holds the event loop, 0 if none
    fetch_count,  \* how often each provider's fetch function was called
    ncalls,       \* get_quote calls made so far
    work,         \* the workload: tickers, prefer values, number of calls
                  \* and the answers the providers give
    first_ret,    \* per pair: the first quote returned in the last TTL seconds
    last_stored,  \* per pair: the quote most recently stored, and its age
    wl,           \* the api_watchlist request: its tasks, semaphore and items
    dp            \* app/services/data_provider.py: its cache and get_quote calls

rvars == << rq, rpc, rres, rres2 >>

ovars == << token, cache, calls, running, fetch_count, ncalls, work,
            first_ret, last_stored, wl >>

vars == << rq, rpc, rres, rres2, token, cache, calls, running, fetch_count,
           ncalls, work, first_ret, last_stored, wl, dp >>

NoResult == [raw |-> << >>, rs |-> ResolvedSymbol(<< >>, "none", << >>)]

Workload(resolved, prefers, budget, brapi, yahoo, stooq) ==
    [resolved |-> resolved, prefers |-> prefers, budget |-> budget,
     brapi |-> brapi, yahoo |-> yahoo, stooq |-> stooq]

IdleCall ==
    [pc |-> "idle", resolved |-> ResolvedSymbol(<< >>, "none", << >>),
     prefer |-> None, providers |-> << >>, idx |-> 0, btry |-> 0,
     tried |-> << >>, last_error |-> "", hit |-> FALSE, raw |-> EmptyDict,
     pending |-> NoResponse, ret |-> NoRet]

ResolverOff ==
    /\ rq = << >>
    /\ rpc = "off"
    /\ rres = NoResult
    /\ rres2 = NoResult

\* no api_watchlist request
WatchOff ==
    [pc |-> "off", list |-> "", limit |-> 0, resolved |-> << >>,
     prefer |-> None, sem |-> 0, waiters |-> << >>, task |-> << >>,
     rets |-> << >>, items |-> << >>]

OrchestratorStart ==
    /\ wl = WatchOff
    /\ cache = [k \in {} |-> [quote |-> NoQuote, age |-> 0]]
    /\ calls = [c \in Calls |-> IdleCall]
    /\ running = 0
    /\ fetch_count = [p \in {"brapi", "yahoo", "stooq"} |-> 0]
    /\ ncalls = 0
    /\ first_ret = [k \in {} |-> [quote |-> NoQuote, age |-> 0]]
    /\ last_stored = [k \in {} |-> [quote |-> NoQuote, age |-> 0]]

(***************************************************************************)
(* The resolver, applied to one input and then to its own symbol           *)
(***************************************************************************)
InitResolver ==
    /\ dp = DpStart
    /\ rq \in ResolverInputs
    /\ rpc = "input"
    /\ rres = NoResult
    /\ rres2 = NoResult
    /\ token = FALSE
    /\ work = Workload({}, {}, 0, {}, {}, {})
    /\ OrchestratorStart

\* symbol_in, resolved = resolve_symbol(q)
Resolve ==
    /\ rpc = "input"
    /\ rres' = resolve_symbol(rq)
    /\ rpc' = "resolved"
    /\ UNCHANGED << rq, rres2 >>
    /\ UNCHANGED << ovars, dp >>

\* the resolved symbol is submitted again as a ticker
ResolveAgain ==
    /\ rpc = "resolved"
    /\ rres2' = resolve_symbol(rres.rs.symbol)
    /\ rpc' = "again"
    /\ UNCHANGED << rq, rres >>
    /\ UNCHANGED << ovars, dp >>

NextResolver == Resolve \/ ResolveAgain

SpecResolver == InitResolver /\ [][NextResolver]_vars

(***************************************************************************)
(* QuoteOrchestrator.get_quote as coroutines on one event loop.  A         *)
(* coroutine keeps the loop from one await to the next: only the BRAPI     *)
(* request is awaited, the Yahoo and Stooq fetches are plain calls.        *)
(***************************************************************************)
\* Each run asks for one ticker with one prefer value, MaxCalls times.
Init ==
    /\ dp = DpStart
    /\ ResolverOff
    /\ token \in BOOLEAN
    /\ \E r \in Resolved, p \in Prefers :
           work = Workload({r}, {p}, MaxCalls, BrapiResponses, YahooResponses,
                           StooqResponses(r.symbol))
    /\ OrchestratorStart

\* no task of a batch is in the loop's ready queue: a task made by gather
\* and a task woken by the semaphore run before any later I/O completion
NoneRunnable ==
    \A i \in DOMAIN wl.task : wl.task[i] \notin {"new", "ready"}

\* no result is waiting for its caller
NoneDone == \A c \in DOMAIN calls : calls[c].pc # "done"

\* the ghost records of a quote q returned for a pair
NoteReturned(pair, q) ==
    IF pair \in DOMAIN first_ret THEN first_ret
    ELSE [k \in DOMAIN first_ret \cup {pair} |->
             IF k = pair THEN [quote |-> q, age |-> 0] ELSE first_ret[k]]

\* a plausible slip: what the adapter built is stored as it is, and only
\* the returned quote is validated
Succeed_StoreUnvalidated(c, p, raw, parsed) ==
    LET r == calls[c]
        q == validate(parsed)
        pair == PairOf(r.resolved, r.prefer)
    IN  /\ cache' = cache_set(cache, cache_key(r.resolved, r.prefer), parsed)
        /\ calls' = [calls EXCEPT ![c].pc = "done",
                                  ![c].tried = Append(@, [p |-> p, out |-> "data"]),
                                  ![c].raw = raw,
                                  ![c].pending = NoResponse,
                                  ![c].ret = [kind |-> "quote", quote |-> q,
                                              error |-> ""]]
        /\ running' = 0
        /\ first_ret' = NoteReturned(pair, q)
        /\ last_stored' = cache_set(last_stored, pair, parsed)

\* raw was parsed: parsed is validated, stored under the call's key and
\* returned
Succeed(c, p, raw, parsed) ==
    LET r == calls[c]
        q == validate(parsed)
        pair == PairOf(r.resolved, r.prefer)
    IN  /\ cache' = cache_set(cache, cache_key(r.resolved, r.prefer), q)
        /\ calls' = [calls EXCEPT ![c].pc = "done",
                                  ![c].tried = Append(@, [p |-> p, out |-> "data"]),
                                  ![c].raw = raw,
                                  ![c].pending = NoResponse,
                                  ![c].ret = [kind |-> "quote", quote |-> q,
                                              error |-> ""]]
        /\ running' = 0
        /\ first_ret' = NoteReturned(pair, q)
        /\ last_stored' = cache_set(last_stored, pair, q)

\* a plausible slip: the first provider of the order is given a second try
GoOn_RetryFirst(c, p, out, err) ==
    /\ calls' = [calls EXCEPT ![c].pc = "loop",
                              ![c].idx = IF Len(calls[c].tried) = 0
                                         THEN @ ELSE @ + 1,
                              ![c].btry = 0,
                              ![c].pending = NoResponse,
                              ![c].tried = Append(@, [p |-> p, out |-> out]),
                              ![c].last_error =
                                  IF out = "raise" THEN err ELSE @]
    /\ running' = c
    /\ UNCHANGED << cache, first_ret, last_stored >>

\* the provider gave nothing, or raised: the loop goes on to the next one
GoOn(c, p, out, err) ==
    /\ calls' = [calls EXCEPT ![c].pc = "loop",
                              ![c].idx = @ + 1,
                              ![c].btry = 0,
                              ![c].pending = NoResponse,
                              ![c].tried = Append(@, [p |-> p, out |-> out]),
                              ![c].last_error =
                                  IF out = "raise" THEN err ELSE @]
    /\ running' = c
    /\ UNCHANGED << cache, first_ret, last_stored >>

\* the first lines of get_quote: `cache_key in self.cache`, and on a miss
\* the provider order
EnterGetQuote(c, resolved, prefer) ==
    /\ calls' = [calls EXCEPT ![c] =
           IF cache_has(cache, cache_key(resolved, prefer))
           THEN [IdleCall EXCEPT !.pc = "cached", !.resolved = resolved,
                                 !.prefer = prefer, !.hit = TRUE]
           ELSE [IdleCall EXCEPT !.pc = "loop", !.resolved = resolved,
                                 !.prefer = prefer, !.idx = 1,
                                 !.providers = provider_order(token, prefer)]]
    /\ running' = c

\* api_quote calls get_quote
GetQuote(c, resolved, prefer) ==
    /\ running = 0
    /\ NoneDone
    /\ calls[c].pc = "idle"
    /\ \A d \in DOMAIN calls : d < c => calls[d].pc # "idle"
    /\ ncalls < work.budget
    /\ ncalls' = ncalls + 1
    /\ EnterGetQuote(c, resolved, prefer)
    /\ UNCHANGED << token, cache, fetch_count, work, first_ret, last_stored >>
    /\ UNCHANGED << rvars, wl, dp >>

\* a plausible slip: a quote read from the cache goes through _validate
\* once more before it is returned
CacheRead_Revalidate(c) ==
    /\ running = c
    /\ calls[c].pc \in {"cached", "reading"}
    /\ LET r == calls[c]
           key == cache_key(r.resolved, r.prefer)
       IN  IF cache_has(cache, key)
           THEN /\ calls' = [calls EXCEPT ![c].pc = "done",
                                          ![c].ret = [kind |-> "quote",
                                                      quote |-> validate(cache[key].quote),
                                                      error |-> ""]]
                /\ first_ret' = NoteReturned(PairOf(r.resolved, r.prefer),
                                             validate(cache[key].quote))
           ELSE /\ calls' = [calls EXCEPT ![c].pc = "done",
                                          ![c].ret = KeyErrorResult(key)]
                /\ UNCHANGED first_ret
    /\ running' = 0
    /\ UNCHANGED << token, cache, fetch_count, ncalls, work, last_stored >>
    /\ UNCHANGED << rvars, wl, dp >>

\* `return self.cache[cache_key]`: the expiry is looked at a second time,
\* and an entry that ran out since the check is a KeyError
CacheRead(c) ==
    /\ running = c
    /\ calls[c].pc \in {"cached", "reading"}
    /\ LET r == calls[c]
           key == cache_key(r.resolved, r.prefer)
       IN  IF cache_has(cache, key)
           THEN /\ calls' = [calls EXCEPT ![c].pc = "done",
                                          ![c].ret = [kind |-> "quote",
                                                      quote |-> cache[key].quote,
                                                      error |-> ""]]
                /\ first_ret' = NoteReturned(PairOf(r.resolved, r.prefer),
                                             cache[key].quote)
           ELSE /\ calls' = [calls EXCEPT ![c].pc = "done",
                                          ![c].ret = KeyErrorResult(key)]
                /\ UNCHANGED first_ret
    /\ running' = 0
    /\ UNCHANGED << token, cache, fetch_count, ncalls, work, last_stored >>
    /\ UNCHANGED << rvars, wl, dp >>

\* p == "brapi": fetch_brapi is entered and awaits its first request
BrapiFetch(c) ==
    /\ running = c
    /\ calls[c].pc = "loop"
    /\ calls[c].idx <= Len(calls[c].providers)
    /\ calls[c].providers[calls[c].idx] = "brapi"
    /\ calls' = [calls EXCEPT ![c].pc = "await_brapi", ![c].btry = 1]
    /\ running' = 0
    /\ fetch_count' = [fetch_count EXCEPT !["brapi"] = @ + 1]
    /\ UNCHANGED << token, cache, ncalls, work, first_ret, last_stored >>
    /\ UNCHANGED << rvars, wl, dp >>

\* an awaited BRAPI request ends; the coroutine resumes
BrapiResponse(c, resp) ==
    /\ running = 0
    /\ NoneDone
    /\ NoneRunnable
    /\ calls[c].pc = "await_brapi"
    /\ LET r == calls[c]
       IN  IF resp.k = "fail"
           THEN IF r.btry = 1
                THEN /\ calls' = [calls EXCEPT ![c].btry = 2]
                     /\ UNCHANGED << running, cache, first_ret, last_stored >>
                ELSE GoOn(c, "brapi", "nodata", "")
           ELSE IF DOMAIN resp.data = {}
           THEN GoOn(c, "brapi", "nodata", "")
           ELSE IF parse_brapi_raises(resp.data)
           THEN GoOn(c, "brapi", "raise", "ValueError: could not convert")
           ELSE Succeed(c, "brapi", resp.data,
                        parse_brapi(r.resolved.symbol, resp.data))
    /\ UNCHANGED << token, fetch_count, ncalls, work >>
    /\ UNCHANGED << rvars, wl, dp >>

\* "stall" for an upstream that never answers, "answer" for every other
WaitKinds(resps) == {IF r.k = "stall" THEN "stall" ELSE "answer" : r \in resps}

\* how Stooq can treat the request of call c, whose loop is at stooq
StooqWaitKinds(c) ==
    IF calls[c].pc # "loop" \/ calls[c].idx \notin DOMAIN calls[c].providers
    THEN {}
    ELSE IF calls[c].providers[calls[c].idx] # "stooq" THEN {}
    ELSE WaitKinds(StooqResponses(calls[c].resolved.symbol) \cap work.stooq)

\* what the fetch function that call c is in can end in
SyncAnswers(c) ==
    IF calls[c].pc # "in_fetch" THEN {}
    ELSE IF calls[c].providers[calls[c].idx] = "yahoo"
    THEN {r \in work.yahoo : r.k # "stall"}
    ELSE StooqResponses(calls[c].resolved.symbol) \cap work.stooq

\* p == "yahoo" or p == "stooq": fetch_yahoo_sync or fetch_stooq is called.
\* It is a plain call, not awaited: the coroutine keeps the event loop while
\* the upstream, which will answer or not (k), is being waited for.
SyncFetch(c, p, k) ==
    /\ running = c
    /\ calls[c].pc = "loop"
    /\ calls[c].idx <= Len(calls[c].providers)
    /\ calls[c].providers[calls[c].idx] = p
    /\ calls' = [calls EXCEPT ![c].pc = "in_fetch",
                              ![c].pending = Response(k, EmptyDict)]
    /\ fetch_count' = [fetch_count EXCEPT ![p] = @ + 1]
    /\ UNCHANGED << token, cache, running, ncalls, work, first_ret,
                    last_stored >>
    /\ UNCHANGED << rvars, wl, dp >>

\* the fetch function returns or raises, ending in resp; an upstream that
\* never answers a fetch made without a deadline never lets it return
SyncReturn(c, resp) ==
    /\ running = c
    /\ calls[c].pc = "in_fetch"
    /\ calls[c].pending.k # "stall"
    /\ LET r == calls[c]
           p == r.providers[r.idx]
       IN  IF resp.k = "none" \/ (resp.k = "data" /\ DOMAIN resp.data = {})
           THEN GoOn(c, p, "nodata", "")
           ELSE IF resp.k = "raise"
           THEN GoOn(c, p, "raise", "upstream exception text")
           ELSE IF p = "yahoo"
           THEN IF parse_yahoo_raises(resp.data)
                THEN GoOn(c, p, "raise", "ValueError: could not convert")
                ELSE Succeed(c, p, resp.data,
                             parse_yahoo(r.resolved.symbol, resp.data))
           ELSE IF parse_stooq_raises(resp.data)
                THEN GoOn(c, p, "raise", "ValueError: could not convert")
                ELSE Succeed(c, p, resp.data,
                             parse_stooq(r.resolved.symbol, resp.data))
    /\ UNCHANGED << token, fetch_count, ncalls, work >>
    /\ UNCHANGED << rvars, wl, dp >>

\* the loop is over without a return: RuntimeError
Exhausted(c) ==
    /\ running = c
    /\ calls[c].pc = "loop"
    /\ calls[c].idx > Len(calls[c].providers)
    /\ calls' = [calls EXCEPT ![c].pc = "done",
                              ![c].ret = ExhaustedResult(calls[c].resolved.symbol,
                                                         calls[c].last_error)]
    /\ running' = 0
    /\ UNCHANGED << token, cache, fetch_count, ncalls, work, first_ret,
                    last_stored >>
    /\ UNCHANGED << rvars, wl, dp >>

\* raise HTTPException(status_code=502, detail=str(e))
HttpDetail(ret) == ret.error

\* the caller takes the result; the slot is free for another call
Deliver(c) ==
    /\ calls[c].pc = "done"
    /\ calls' = [calls EXCEPT ![c] = IdleCall]
    /\ UNCHANGED << token, cache, running, fetch_count, ncalls, work,
                    first_ret, last_stored >>
    /\ UNCHANGED << rvars, wl, dp >>

\* The clock moves on to the next multiple of TickStep seconds.  It is read
\* at the cache check, at the cache read and at the cache write only, so the
\* time a coroutine spends between two awaits is counted before it takes the
\* loop or after it gives the loop up; between the check and the read of
\* the cache the clock moves on at most once.
Tick ==
    /\ NoneDone
    /\ IF running = 0 THEN TRUE ELSE calls[running].pc = "cached"
    /\ cache # Aged(cache, TickStep) \/ first_ret # Aged(first_ret, TickStep)
    /\ cache' = Aged(cache, TickStep)
    /\ first_ret' = Aged(first_ret, TickStep)
    /\ last_stored' = Aged(last_stored, TickStep)
    /\ calls' = IF running = 0 THEN calls
                ELSE [calls EXCEPT ![running].pc = "reading"]
    /\ UNCHANGED << token, running, fetch_count, ncalls, work >>
    /\ UNCHANGED << rvars, wl, dp >>

Next ==
    \/ \E c \in Calls :
           \E resolved \in work.resolved, prefer \in work.prefers :
               GetQuote(c, resolved, prefer)
    \/ \E c \in Calls : CacheRead(c)
    \/ \E c \in Calls : BrapiFetch(c)
    \/ \E c \in Calls, resp \in work.brapi : BrapiResponse(c, resp)
    \/ \E c \in Calls, k \in WaitKinds(work.yahoo) : SyncFetch(c, "yahoo", k)
    \/ \E c \in Calls :
           \E k \in StooqWaitKinds(c) : SyncFetch(c, "stooq", k)
    \/ \E c \in Calls : \E resp \in SyncAnswers(c) : SyncReturn(c, resp)
    \/ \E c \in Calls : Exhausted(c)
    \/ \E c \in Calls : Deliver(c)
    \/ Tick

Spec == Init /\ [][Next]_vars

\* the BRAPI answers with a numeric price other than zero, or none
BrapiPriced ==
    {r \in BrapiResponses :
        \/ r.k = "fail"
        \/ /\ "regularMarketPrice" \in DOMAIN r.data
           /\ r.data["regularMarketPrice"].t = "num"
           /\ r.data["regularMarketPrice"].n # 0}

\* the Yahoo answers with a price other than zero, or none
YahooPriced ==
    {r \in YahooResponses :
        \/ r.k = "none"
        \/ /\ "last" \in DOMAIN r.data
           /\ r.data["last"] \notin {None, Num(0)}
           /\ "volume" \in DOMAIN r.data}

\* the Stooq answers with a finite close, or none
StooqPriced(symbol) ==
    {r \in StooqResponses(symbol) :
        \/ r.k = "none"
        \/ r.data["last"].t = "num"}

\* one ticker asked for repeatedly, with and without a preference
InitCache ==
    /\ dp = DpStart
    /\ ResolverOff
    /\ token \in BOOLEAN
    /\ work = Workload({resolve_symbol(<< "P", "E", "T", "R", "4" >>).rs},
                       {None, Str("yahoo")}, MaxCallsCache, BrapiPriced,
                       YahooPriced,
                       StooqPriced(resolve_symbol(
                           << "P", "E", "T", "R", "4" >>).rs.symbol))
    /\ OrchestratorStart

SpecCache == InitCache /\ [][Next]_vars

(***************************************************************************)
(* app.py: api_watchlist.  One request resolves the symbols of a list,     *)
(* makes one fetch_one task per symbol and gathers them; a task holds the  *)
(* semaphore while it is in get_quote.                                     *)
(***************************************************************************)
WATCH_CONCURRENCY == 5

WatchLen == 6

br_bluechips ==
    << << "P", "E", "T", "R", "4", ".", "S", "A" >>,
       << "V", "A", "L", "E", "3", ".", "S", "A" >>,
       << "I", "T", "U", "B", "4", ".", "S", "A" >>,
       << "B", "3", "S", "A", "3", ".", "S", "A" >>,
       << "A", "B", "E", "V", "3", ".", "S", "A" >>,
       << "B", "B", "A", "S", "3", ".", "S", "A" >>,
       << "B", "B", "D", "C", "4", ".", "S", "A" >>,
       << "W", "E", "G", "E", "3", ".", "S", "A" >>,
       << "E", "L", "E", "T", "3", ".", "S", "A" >>,
       << "E", "L", "E", "T", "6", ".", "S", "A" >>,
       << "P", "R", "I", "O", "3", ".", "S", "A" >>,
       << "G", "G", "B", "R", "4", ".", "S", "A" >>,
       << "S", "U", "Z", "B", "3", ".", "S", "A" >>,
       << "J", "B", "S", "S", "3", ".", "S", "A" >> >>

br_bancos ==
    << << "I", "T", "U", "B", "4", ".", "S", "A" >>,
       << "B", "B", "D", "C", "4", ".", "S", "A" >>,
       << "B", "B", "A", "S", "3", ".", "S", "A" >>,
       << "S", "A", "N", "B", "1", "1", ".", "S", "A" >>,
       << "B", "P", "A", "C", "1", "1", ".", "S", "A" >> >>

\* watchlists.py: WATCHLISTS, two of its lists
WATCHLISTS == [br_bluechips |-> br_bluechips, br_bancos |-> br_bancos]

\* the list key and the limit of a request; limit 0 stands for no limit
WatchRequests ==
    { << "br_bluechips", 2 >>, << "br_bluechips", WatchLen >>,
      << "br_bancos", 0 >>, << "br_none", 0 >> }

\* syms[:limit] if limit else syms
Truncated(syms, limit) ==
    IF limit # 0 /\ limit < Len(syms) THEN SubSeq(syms, 1, limit) ELSE syms

NoItem ==
    [resolved |-> ResolvedSymbol(<< >>, "none", << >>),
     price |-> NoQuote.price, market_cap |-> NoQuote.market_cap,
     volume |-> NoQuote.volume, status |-> NoQuote.status]

\* str(e)[:120]; the error texts of the model are shorter than that
Cut120(text) == IF Len(text) <= 120 THEN text ELSE "<the first 120 characters>"

\* a plausible slip: fetch_one without its except branch
fetch_one_NoExcept(resolved, ret) ==
    IF ret.kind = "quote"
    THEN [kind |-> "item",
          item |-> [resolved |-> resolved, price |-> ret.quote.price,
                    market_cap |-> ret.quote.market_cap,
                    volume |-> ret.quote.volume, status |-> ret.quote.status]]
    ELSE [kind |-> "raise", item |-> NoItem]

\* a plausible slip: the except branch hands out an item without a source
\* mark, as if a provider had answered with nothing
fetch_one_NoMark(resolved, ret) ==
    IF ret.kind = "quote"
    THEN [kind |-> "item",
          item |-> [resolved |-> resolved, price |-> ret.quote.price,
                    market_cap |-> ret.quote.market_cap,
                    volume |-> ret.quote.volume, status |-> ret.quote.status]]
    ELSE [kind |-> "item",
          item |-> [resolved |-> resolved,
                    price |-> [last |-> None, change_pct |-> None,
                               currency |-> None, source |-> "none"],
                    market_cap |-> [value |-> None, currency |-> None],
                    volume |-> [value |-> None],
                    status |-> [confidence |-> "high", notes |-> << >>]]]

\* what fetch_one makes of the end of its get_quote call: the item of the
\* quote, or the error marker when get_quote raised
fetch_one(resolved, ret) ==
    IF ret.kind = "quote"
    THEN [kind |-> "item",
          item |-> [resolved |-> resolved, price |-> ret.quote.price,
                    market_cap |-> ret.quote.market_cap,
                    volume |-> ret.quote.volume, status |-> ret.quote.status]]
    ELSE [kind |-> "item",
          item |-> [resolved |-> resolved,
                    price |-> [last |-> None, change_pct |-> None,
                               currency |-> None, source |-> "error"],
                    market_cap |-> [value |-> None, currency |-> None],
                    volume |-> [value |-> None],
                    status |-> [confidence |-> "low",
                                notes |-> << "erro: " \o Cut120(ret.error) >>]]]

\* a plausible slip: the semaphore is never found locked
sem_locked_Never(value, waiters) == value < 0

\* asyncio.Semaphore.locked(): no slot is free, or a task is waiting for one
sem_locked(value, waiters) == value = 0 \/ waiters # << >>

\* the answers of the providers during a batch: a full payload, or none
WatchBrapi ==
    {r \in BrapiResponses :
        r.k = "fail" \/ Get(r.data, "regularMarketVolume") = Num(9)}

WatchYahoo ==
    {r \in YahooResponses : r.k = "none"}

WatchStooq == {Response("none", EmptyDict)}

InitWatch ==
    /\ dp = DpStart
    /\ ResolverOff
    /\ token \in BOOLEAN
    /\ work = Workload({}, {None}, 0, WatchBrapi, WatchYahoo, WatchStooq)
    /\ wl = [WatchOff EXCEPT !.pc = "idle"]
    /\ cache = [k \in {} |-> [quote |-> NoQuote, age |-> 0]]
    /\ calls = [c \in 1..WatchLen |-> IdleCall]
    /\ running = 0
    /\ fetch_count = [p \in {"brapi", "yahoo", "stooq"} |-> 0]
    /\ ncalls = 0
    /\ first_ret = [k \in {} |-> [quote |-> NoQuote, age |-> 0]]
    /\ last_stored = [k \in {} |-> [quote |-> NoQuote, age |-> 0]]

\* api_watchlist up to its await of gather: 404 for an unknown list, else
\* the resolved list, the semaphore and one task per symbol
ApiWatchlist(list_key, prefer, limit) ==
    /\ wl.pc = "idle"
    /\ IF list_key \notin DOMAIN WATCHLISTS
       THEN wl' = [wl EXCEPT !.pc = "404", !.list = list_key, !.limit = limit,
                             !.prefer = prefer]
       ELSE LET syms == Truncated(WATCHLISTS[list_key], limit)
                n == Len(syms)
            IN  /\ n <= WatchLen
                /\ wl' = [pc |-> "gather", list |-> list_key, limit |-> limit,
                          resolved |-> [i \in 1..n |-> resolve_symbol(syms[i]).rs],
                          prefer |-> prefer, sem |-> WATCH_CONCURRENCY,
                          waiters |-> << >>, task |-> [i \in 1..n |-> "new"],
                          rets |-> [i \in 1..n |-> NoRet],
                          items |-> [i \in 1..n |-> NoItem]]
    /\ UNCHANGED << token, cache, calls, running, fetch_count, ncalls, work,
                    first_ret, last_stored >>
    /\ UNCHANGED << rvars, dp >>

\* a task made by gather runs for the first time: it takes a slot of the
\* semaphore and calls get_quote, or waits for a slot
FetchOneStart(i) ==
    /\ wl.pc = "gather"
    /\ running = 0
    /\ NoneDone
    /\ i \in DOMAIN wl.task
    /\ wl.task[i] = "new"
    /\ \A j \in DOMAIN wl.task : j < i => wl.task[j] # "new"
    /\ IF sem_locked(wl.sem, wl.waiters)
       THEN /\ wl' = [wl EXCEPT !.waiters = Append(@, i),
                                !.task[i] = "waiting"]
            /\ UNCHANGED << calls, running, ncalls >>
       ELSE /\ wl' = [wl EXCEPT !.sem = @ - 1, !.task[i] = "quote"]
            /\ EnterGetQuote(i, wl.resolved[i], wl.prefer)
            /\ ncalls' = ncalls + 1
    /\ UNCHANGED << token, cache, fetch_count, work, first_ret, last_stored >>
    /\ UNCHANGED << rvars, dp >>

\* a task that was handed a slot runs again and calls get_quote
FetchOneResume(i) ==
    /\ wl.pc = "gather"
    /\ running = 0
    /\ NoneDone
    /\ i \in DOMAIN wl.task
    /\ wl.task[i] = "ready"
    /\ wl' = [wl EXCEPT !.task[i] = "quote"]
    /\ EnterGetQuote(i, wl.resolved[i], wl.prefer)
    /\ ncalls' = ncalls + 1
    /\ UNCHANGED << token, cache, fetch_count, work, first_ret, last_stored >>
    /\ UNCHANGED << rvars, dp >>

\* the slot given back: to the task waiting longest, if one waits
Released(w) ==
    IF w.waiters # << >>
    THEN [w EXCEPT !.task[Head(w.waiters)] = "ready", !.waiters = Tail(@)]
    ELSE [w EXCEPT !.sem = @ + 1]

\* get_quote has ended: fetch_one returns its item and leaves the `async
\* with`; an exception that fetch_one let through would end the gather
FetchOneFinish(i) ==
    /\ wl.pc = "gather"
    /\ i \in DOMAIN wl.task
    /\ wl.task[i] = "quote"
    /\ calls[i].pc = "done"
    /\ LET out == fetch_one(wl.resolved[i], calls[i].ret)
           w == Released([wl EXCEPT !.task[i] = "finished",
                                    !.rets[i] = calls[i].ret])
       IN  IF out.kind = "raise"
           THEN wl' = [w EXCEPT !.pc = "failed"]
           ELSE wl' = [w EXCEPT !.items[i] = out.item]
    /\ calls' = [calls EXCEPT ![i] = IdleCall]
    /\ UNCHANGED << token, cache, running, fetch_count, ncalls, work,
                    first_ret, last_stored >>
    /\ UNCHANGED << rvars, dp >>

\* every task is finished: gather returns the items in the order of the
\* list and api_watchlist answers with them
WatchReturn ==
    /\ wl.pc = "gather"
    /\ \A i \in DOMAIN wl.task : wl.task[i] = "finished"
    /\ wl' = [wl EXCEPT !.pc = "returned"]
    /\ UNCHANGED << token, cache, calls, running, fetch_count, ncalls, work,
                    first_ret, last_stored >>
    /\ UNCHANGED << rvars, dp >>

\* The symbols of a list differ and the cache starts empty, so no task of
\* the batch finds its key in the cache, and the age of the entries, which
\* only a cache check reads, is left at zero.
NextWatch ==
    \/ \E req \in WatchRequests, prefer \in work.prefers :
           ApiWatchlist(req[1], prefer, req[2])
    \/ \E i \in DOMAIN calls : FetchOneStart(i)
    \/ \E i \in DOMAIN calls : FetchOneResume(i)
    \/ \E c \in DOMAIN calls : BrapiFetch(c)
    \/ \E c \in DOMAIN calls, resp \in work.brapi : BrapiResponse(c, resp)
    \/ \E c \in DOMAIN calls, k \in WaitKinds(work.yahoo) :
           SyncFetch(c, "yahoo", k)
    \/ \E c \in DOMAIN calls :
           \E k \in StooqWaitKinds(c) : SyncFetch(c, "stooq", k)
    \/ \E c \in DOMAIN calls : \E resp \in SyncAnswers(c) : SyncReturn(c, resp)
    \/ \E c \in DOMAIN calls : Exhausted(c)
    \/ \E i \in DOMAIN calls : FetchOneFinish(i)
    \/ WatchReturn

SpecWatch == InitWatch /\ [][NextWatch]_vars

(***************************************************************************)
(* app/services/data_provider.py: get_quote as coroutines on one event     *)
(* loop.  _fetch_yahoo and _fetch_stooq are plain calls; only the BRAPI    *)
(* request, made when a token is configured, is awaited.                   *)
(***************************************************************************)
DpNoneDone == \A c \in DpCalls : dp.calls[c].pc # "done"

\* a plausible slip: an entry is still served at the very TTL (<=)
dp_cache_hit_Inclusive(cache_, symbol) ==
    symbol \in DOMAIN cache_ /\ cache_[symbol].age <= DP_TTL

\* `c and now - c["ts"] < 60`
dp_cache_hit(cache_, symbol) ==
    symbol \in DOMAIN cache_ /\ cache_[symbol].age < DP_TTL

\* _CACHE[symbol] = {"ts": now, "data": data}
dp_cache_set(cache_, symbol, data) ==
    [k \in DOMAIN cache_ \cup {symbol} |->
        IF k = symbol THEN [data |-> data, age |-> 0] ELSE cache_[k]]

\* the dict keeps every entry; an age is counted up to the TTL
DpAged(cache_, d) ==
    [k \in DOMAIN cache_ |->
        [cache_[k] EXCEPT !.age = IF @ + d < DP_TTL THEN @ + d ELSE DP_TTL]]

\* call c stores data under its symbol and returns it
DpStored(c, p, data) ==
    [dp EXCEPT !.cache = dp_cache_set(@, dp.calls[c].symbol, data),
               !.calls[c].pc = "done",
               !.calls[c].tried = Append(@, [p |-> p, out |-> "payload"]),
               !.calls[c].ret = [kind |-> "payload", data |-> data],
               !.running = 0,
               !.contacts[p] = @ + 1]

\* an exception leaves get_quote, which has no try of its own
DpRaised(c, p) ==
    [dp EXCEPT !.calls[c].pc = "done",
               !.calls[c].tried = Append(@, [p |-> p, out |-> "raise"]),
               !.calls[c].ret = [kind |-> "error", data |-> NoPayload],
               !.running = 0,
               !.contacts[p] = @ + 1]

DpFrame ==
    UNCHANGED << rq, rpc, rres, rres2, token, cache, calls, running,
                 fetch_count, ncalls, work, first_ret, last_stored, wl >>

\* get_quote is called: the symbol is resolved and the cache is looked at
DpGetQuote(c, raw) ==
    /\ dp.running = 0
    /\ DpNoneDone
    /\ dp.calls[c].pc = "idle"
    /\ \A d \in DpCalls : d < c => dp.calls[d].pc # "idle"
    /\ dp.ncalls < MaxDpCalls
    /\ LET symbol == dp_resolve_symbol(raw)
       IN  IF dp_cache_hit(dp.cache, symbol)
           THEN dp' = [dp EXCEPT !.ncalls = @ + 1,
                          !.calls[c] = [DpIdleCall EXCEPT
                              !.pc = "done", !.symbol = symbol, !.hit = TRUE,
                              !.ret = [kind |-> "payload",
                                       data |-> dp.cache[symbol].data]]]
           ELSE dp' = [dp EXCEPT !.ncalls = @ + 1, !.running = c,
                          !.calls[c] = [DpIdleCall EXCEPT
                              !.pc = "yahoo", !.symbol = symbol]]
    /\ DpFrame

\* a plausible slip: BRAPI is asked whether or not a token is configured
DpYahoo_BrapiAlways(c, resp) ==
    /\ dp.running = c
    /\ dp.calls[c].pc = "yahoo"
    /\ LET out == dp_fetch_yahoo(dp.calls[c].symbol, resp)
       IN  IF out.kind = "payload" THEN dp' = DpStored(c, "yahoo", out.data)
           ELSE IF out.kind = "raise" THEN dp' = DpRaised(c, "yahoo")
           ELSE dp' = [dp EXCEPT
                    !.calls[c].pc = "await_brapi",
                    !.calls[c].tried = Append(@, [p |-> "yahoo", out |-> "none"]),
                    !.running = 0,
                    !.contacts["yahoo"] = @ + 1]
    /\ DpFrame

\* y = _fetch_yahoo(symbol); then, without data, b = await _fetch_brapi(symbol),
\* which returns None at once when no token is configured
DpYahoo(c, resp) ==
    /\ dp.running = c
    /\ dp.calls[c].pc = "yahoo"
    /\ LET out == dp_fetch_yahoo(dp.calls[c].symbol, resp)
       IN  IF out.kind = "payload" THEN dp' = DpStored(c, "yahoo", out.data)
           ELSE IF out.kind = "raise" THEN dp' = DpRaised(c, "yahoo")
           ELSE IF token
           THEN dp' = [dp EXCEPT
                    !.calls[c].pc = "await_brapi",
                    !.calls[c].tried = Append(@, [p |-> "yahoo", out |-> "none"]),
                    !.running = 0,
                    !.contacts["yahoo"] = @ + 1]
           ELSE dp' = [dp EXCEPT
                    !.calls[c].pc = "stooq",
                    !.calls[c].tried =
                        @ \o << [p |-> "yahoo", out |-> "none"],
                                [p |-> "brapi", out |-> "notoken"] >>,
                    !.contacts["yahoo"] = @ + 1]
    /\ DpFrame

\* the awaited BRAPI request ends; without data, s = _fetch_stooq(symbol)
\* is next
DpBrapiResponse(c, resp) ==
    /\ dp.running = 0
    /\ DpNoneDone
    /\ dp.calls[c].pc = "await_brapi"
    /\ LET out == dp_fetch_brapi(dp.calls[c].symbol, resp)
       IN  IF out.kind = "payload" THEN dp' = DpStored(c, "brapi", out.data)
           ELSE IF out.kind = "raise" THEN dp' = DpRaised(c, "brapi")
           ELSE dp' = [dp EXCEPT
                    !.calls[c].pc = "stooq",
                    !.calls[c].tried = Append(@, [p |-> "brapi", out |-> "none"]),
                    !.running = c,
                    !.contacts["brapi"] = @ + 1]
    /\ DpFrame

\* s = _fetch_stooq(symbol); without data the payload "unavailable" is
\* built, stored and returned
DpStooq(c, resp) ==
    /\ dp.running = c
    /\ dp.calls[c].pc = "stooq"
    /\ LET out == dp_fetch_stooq(dp.calls[c].symbol, resp)
       IN  IF out.kind = "payload" THEN dp' = DpStored(c, "stooq", out.data)
           ELSE IF out.kind = "raise" THEN dp' = DpRaised(c, "stooq")
           ELSE dp' = [dp EXCEPT
                    !.cache = dp_cache_set(@, dp.calls[c].symbol,
                                           dp_unavailable(dp.calls[c].symbol)),
                    !.calls[c].pc = "done",
                    !.calls[c].tried = Append(@, [p |-> "stooq", out |-> "none"]),
                    !.calls[c].ret =
                        [kind |-> "payload",
                         data |-> dp_unavailable(dp.calls[c].symbol)],
                    !.running = 0,
                    !.contacts["stooq"] = @ + 1]
    /\ DpFrame

\* the caller (api_quote, api_summary) takes the result
DpDeliver(c) ==
    /\ dp.calls[c].pc = "done"
    /\ dp' = [dp EXCEPT !.calls[c] = DpIdleCall]
    /\ DpFrame

\* DpTickStep seconds pass
DpTick ==
    /\ dp.running = 0
    /\ DpNoneDone
    /\ dp.cache # DpAged(dp.cache, DpTickStep)
    /\ dp' = [dp EXCEPT !.cache = DpAged(@, DpTickStep)]
    /\ DpFrame

InitDP ==
    /\ dp = DpStart
    /\ ResolverOff
    /\ token \in BOOLEAN
    /\ work = Workload({}, {}, 0, {}, {}, {})
    /\ OrchestratorStart

NextDP ==
    \/ \E c \in DpCalls, raw \in DpTickers : DpGetQuote(c, raw)
    \/ \E c \in DpCalls, resp \in DpYahooAnswers : DpYahoo(c, resp)
    \/ \E c \in DpCalls, resp \in DpBrapiAnswers : DpBrapiResponse(c, resp)
    \/ \E c \in DpCalls, resp \in DpStooqAnswers : DpStooq(c, resp)
    \/ \E c \in DpCalls : DpDeliver(c)
    \/ DpTick

SpecDP == InitDP /\ [][NextDP]_vars

\* the stripped, uppercased form of the input
U == upper(strip(rq))

(***************************************************************************)
(* C1 as stated: every input whose stripped, uppercased form is 1 to 4     *)
(* letters followed by 1 to 2 digits and does not end in ".SA" resolves    *)
(* to that form + ".SA" on exchange B3.                                    *)
(***************************************************************************)
C1_AsStated ==
    (rpc = "resolved" /\ FullMatchLettersDigits(U, 1, 4) /\ ~endswith(U, SA))
        => (rres.rs.symbol = U \o SA /\ rres.rs.exchange = "B3")

\* the forms the amended C1 covers
C1_Covered ==
    \/ FullMatchLettersDigits(U, 4, 4)
    \/ (FullMatchLettersDigits(U, 1, 3) /\ endswith(U, ELEVEN))

(***************************************************************************)
(* C1 amended: every input whose stripped, uppercased form is exactly 4    *)
(* letters followed by 1 to 2 digits (or 1 to 3 letters followed by a      *)
(* final "11") resolves to that form + ".SA" on exchange B3, whatever      *)
(* the letter case of the input.                                           *)
(***************************************************************************)
C1_EquityGetsSuffix ==
    (rpc = "resolved" /\ C1_Covered /\ ~endswith(U, SA))
        => (rres.rs.symbol = U \o SA /\ rres.rs.exchange = "B3")

\* a lower-case input of four letters and two digits not ending in "11"
C1_Witness ==
    /\ rpc = "resolved"
    /\ rq = << "w", "i", "n", "w", "1", "4" >>
    /\ rres.rs.symbol = << "W", "I", "N", "W", "1", "4", ".", "S", "A" >>

(***************************************************************************)
(* C2: an input that is no alias of the exception table, does not match    *)
(* the equity pattern, and ends neither in "11" nor in ".SA" resolves to   *)
(* its stripped, uppercased form, unchanged, on exchange AUTO.             *)
(***************************************************************************)
C2_PassThrough ==
    (/\ rpc = "resolved"
     /\ U \notin {IBOV, WIN}
     /\ ~FullMatchLettersDigits(U, 4, 4)
     /\ ~endswith(U, ELEVEN)
     /\ ~endswith(U, SA))
        => (rres.rs.symbol = U /\ rres.rs.exchange = "AUTO")

\* "aapl"-like input: lower case, passed through uppercased
C2_Witness ==
    /\ rpc = "resolved"
    /\ rq = << " ", "w", "i", "n", "n", " " >>
    /\ rres.rs = ResolvedSymbol(<< "W", "I", "N", "N" >>, "AUTO",
                                << "W", "I", "N", "N" >>)

(***************************************************************************)
(* C3: resolving the symbol that resolve_symbol produced gives the same    *)
(* symbol again, for every input (inputs that already carry ".SA"          *)
(* included): the suffix is never appended a second time.                  *)
(***************************************************************************)
C3_Idempotent ==
    (rpc = "again") => (rres2.rs.symbol = rres.rs.symbol)

\* an input that already carries the suffix, resolved twice
C3_Witness ==
    /\ rpc = "again"
    /\ endswith(U, SA)
    /\ Len(U) > 3
    /\ rres2.rs.symbol = U

(***************************************************************************)
(* C4: an input that matches both the equity pattern (1 to 4 letters, 1    *)
(* to 2 digits) and the "11" ending resolves to exactly what the fund      *)
(* rule produces: symbol = uppercased input + ".SA", exchange B3, name =   *)
(* uppercased input.                                                       *)
(***************************************************************************)
C4_FundRuleResult ==
    (rpc = "resolved" /\ FullMatchLettersDigits(U, 1, 4) /\ endswith(U, ELEVEN))
        => (rres.rs = ResolvedSymbol(U \o SA, "B3", U))

\* "ivvb11" in lower case: four letters and "11"
C4_Witness ==
    /\ rpc = "resolved"
    /\ rq = << "w", "i", "n", "n", "1", "1" >>
    /\ rres.rs.name = << "W", "I", "N", "N", "1", "1" >>

(***************************************************************************)
(* C5: an input equal to an alias of the exception table, in any letter    *)
(* case, resolves to the table's fixed (symbol, exchange, name), and no    *)
(* pattern rule alters it.                                                 *)
(***************************************************************************)
C5_AliasFixed ==
    (rpc = "resolved" /\ U \in {IBOV, WIN})
        => (rres.rs = ResolvedSymbol(BVSP, "B3", Ibovespa))

\* a lower-case alias, resolved
C5_Witness ==
    /\ rpc = "resolved"
    /\ rq = << "w", "i", "n" >>
    /\ rres.rs.symbol = BVSP

(***************************************************************************)
(* Claims about QuoteOrchestrator.get_quote                                *)
(***************************************************************************)
\* the step in which call c finds its key in the cache and returns
HitStep(c) ==
    /\ calls[c].pc \in {"cached", "reading"}
    /\ calls'[c].pc = "done"
    /\ calls'[c].ret.kind = "quote"

\* call c has returned a quote that it fetched itself
Fetched(c) ==
    /\ calls[c].pc = "done"
    /\ ~calls[c].hit
    /\ calls[c].ret.kind = "quote"

\* call c has ended with every provider of its order yielding no data
RanOut(c) ==
    /\ calls[c].pc = "done"
    /\ ~calls[c].hit
    /\ \A i \in 1..Len(calls[c].tried) : calls[c].tried[i].out # "data"

(***************************************************************************)
(* C6 as stated: once get_quote has returned a quote for (symbol, prefer), *)
(* every later call with the same (symbol, prefer) that is made within     *)
(* the TTL and finds the entry returns that same quote and contacts no     *)
(* provider.                                                               *)
(***************************************************************************)
C6_AsStated ==
    [][\A c \in Calls :
          LET pair == PairOf(calls'[c].resolved, calls'[c].prefer)
          IN  (HitStep(c) /\ pair \in DOMAIN first_ret)
                  => /\ calls'[c].ret.quote = first_ret[pair].quote
                     /\ fetch_count' = fetch_count]_vars

(***************************************************************************)
(* C6 amended: a call whose (symbol, prefer or "auto") has an entry in     *)
(* the cache younger than the TTL, both when the call checks the cache     *)
(* and when it reads the entry, returns the quote most recently stored     *)
(* for that pair (the earlier call's quote, unless another call that       *)
(* missed the cache concurrently has overwritten it since) and contacts    *)
(* no provider: no provider's call count changes.                          *)
(***************************************************************************)
C6_HitServesStored ==
    [][\A c \in Calls :
          LET pair == PairOf(calls'[c].resolved, calls'[c].prefer)
          IN  HitStep(c)
                  => /\ pair \in DOMAIN last_stored
                     /\ calls'[c].ret.quote = last_stored[pair].quote
                     /\ fetch_count' = fetch_count]_vars

\* a call served from an entry stored some seconds before
C6_Witness ==
    \E c \in Calls :
        LET pair == PairOf(calls[c].resolved, calls[c].prefer)
        IN  /\ calls[c].pc = "done"
            /\ calls[c].hit
            /\ pair \in DOMAIN last_stored
            /\ last_stored[pair].age > 0
            /\ calls[c].ret.quote = last_stored[pair].quote
            /\ calls[c].tried = << >>

\* [brapi, yahoo, stooq], without brapi when no token is configured
BaseOrder ==
    IF token THEN << "brapi", "yahoo", "stooq" >> ELSE << "yahoo", "stooq" >>

\* the order the claim describes for a prefer value
ClaimedOrder(prefer) ==
    IF prefer.t = "str" /\ \E i \in 1..Len(BaseOrder) : BaseOrder[i] = prefer.s
    THEN << prefer.s >> \o SelectSeq(BaseOrder, LAMBDA x : x # prefer.s)
    ELSE BaseOrder

(***************************************************************************)
(* C7: a call that missed the cache attempts the providers in the order    *)
(* [brapi, yahoo, stooq] (brapi left out without a token), with a prefer   *)
(* value that names one of them moved to the front and the others kept     *)
(* in their order; any other prefer value leaves the order as it is.       *)
(***************************************************************************)
C7_ProviderOrder ==
    \A c \in Calls :
        LET r == calls[c]
        IN  (r.pc # "idle" /\ ~r.hit)
                => /\ r.providers = ClaimedOrder(r.prefer)
                   /\ Len(r.tried) <= Len(r.providers)
                   /\ \A i \in 1..Len(r.tried) : r.tried[i].p = r.providers[i]
                   /\ r.pc = "await_brapi"
                          => /\ r.idx = Len(r.tried) + 1
                             /\ r.providers[r.idx] = "brapi"

\* prefer = "stooq" with a token: stooq, then brapi, then yahoo were tried
C7_Witness ==
    \E c \in Calls :
        /\ calls[c].prefer = Str("stooq")
        /\ token
        /\ Len(calls[c].tried) = 3
        /\ calls[c].tried[1].p = "stooq"
        /\ calls[c].tried[2].p = "brapi"
        /\ calls[c].tried[3].p = "yahoo"

(***************************************************************************)
(* C8: the quote a call returns comes from the first provider of its       *)
(* order that yielded data: every provider before it in the order was      *)
(* attempted and yielded none, and none after it was attempted.            *)
(***************************************************************************)
C8_FirstInOrderWins ==
    \A c \in Calls :
        LET r == calls[c]
            n == Len(r.tried)
        IN  Fetched(c)
                => /\ n >= 1
                   /\ r.tried[n].out = "data"
                   /\ \A i \in 1..(n - 1) : r.tried[i].out # "data"
                   /\ \A i \in 1..n : r.tried[i].p = r.providers[i]
                   /\ r.ret.quote.price.source = r.providers[n]

\* the second provider of the order won after the first gave nothing
C8_Witness ==
    \E c \in Calls :
        /\ Fetched(c)
        /\ Len(calls[c].tried) = 2
        /\ calls[c].providers = << "yahoo", "brapi", "stooq" >>
        /\ calls[c].ret.quote.price.source = "brapi"

\* the confidence the adapter of the quote's source assigns, lowered to
\* "low" by validation when the price is present and not positive
AdapterConfidence(q) ==
    IF q.price.last # None /\ InvalidPrice(q.price.last) THEN "low"
    ELSE IF q.price.source = "brapi" THEN "high"
    ELSE IF q.price.source = "yahoo"
         THEN IF \E i \in 1..Len(q.status.notes) :
                     q.status.notes[i] = NOTE_NO_CHANGE
              THEN "medium" ELSE "high"
    ELSE "medium"

(***************************************************************************)
(* C9: when every earlier provider of the order yields no data and a       *)
(* later one yields data, the returned quote's price.source is the later   *)
(* provider's id and its confidence is the one that provider's adapter     *)
(* assigns, changed only by validation's downgrade to "low".               *)
(***************************************************************************)
C9_FallbackSource ==
    \A c \in Calls :
        LET r == calls[c]
            n == Len(r.tried)
        IN  (Fetched(c) /\ n >= 2)
                => /\ r.ret.quote.price.source = r.tried[n].p
                   /\ r.ret.quote.status.confidence
                          = AdapterConfidence(r.ret.quote)

\* brapi and yahoo gave nothing, stooq's closing price is returned
C9_Witness ==
    \E c \in Calls :
        /\ Fetched(c)
        /\ Len(calls[c].tried) = 3
        /\ calls[c].tried[1].p = "brapi"
        /\ calls[c].tried[3].p = "stooq"
        /\ calls[c].ret.quote.price.source = "stooq"
        /\ calls[c].ret.quote.status.confidence = "medium"

(***************************************************************************)
(* C10: a call in which every attempted provider yields no data never      *)
(* returns a quote: it fails with the one aggregated RuntimeError, after   *)
(* every provider of its order was attempted, and so does every other      *)
(* exhausted call.                                                         *)
(***************************************************************************)
C10_ExhaustionRaises ==
    \A c \in Calls :
        RanOut(c)
            => /\ calls[c].ret.kind = "error"
               /\ calls[c].ret.quote = NoQuote
               /\ Len(calls[c].tried) = Len(calls[c].providers)

\* a call is exhausted after three providers failed, one of them by raising
C10_Witness ==
    \E c \in Calls :
        /\ RanOut(c)
        /\ calls[c].last_error # ""
        /\ Len(calls[c].tried) = 3
        /\ calls[c].ret.kind = "error"

(***************************************************************************)
(* C11: whichever provider produced it, a quote whose price.last is        *)
(* present and not above zero leaves get_quote with confidence "low" and   *)
(* with the invalid-price note among its notes.                            *)
(***************************************************************************)
C11_InvalidPriceIsLow ==
    \A c \in Calls :
        LET q == calls[c].ret.quote
        IN  (Fetched(c) /\ q.price.last.t = "num" /\ q.price.last.n <= 0)
                => /\ q.status.confidence = "low"
                   /\ InList(NOTE_INVALID, q.status.notes)

\* Yahoo reported a last price of exactly zero
C11_Witness ==
    \E c \in Calls :
        /\ Fetched(c)
        /\ calls[c].ret.quote.price.source = "yahoo"
        /\ calls[c].ret.quote.price.last = Num(0)
        /\ calls[c].ret.quote.status.confidence = "low"

(***************************************************************************)
(* C12: every quote get_quote returns, fetched or served from the cache,   *)
(* and every quote held by the cache, whose notes hold the invalid-price   *)
(* note has confidence "low".                                              *)
(***************************************************************************)
C12_InvalidNoteMeansLow ==
    /\ \A c \in Calls :
           LET r == calls[c]
           IN  (r.pc = "done" /\ r.ret.kind = "quote"
                /\ InList(NOTE_INVALID, r.ret.quote.status.notes))
                   => r.ret.quote.status.confidence = "low"
    /\ \A k \in DOMAIN cache :
           InList(NOTE_INVALID, cache[k].quote.status.notes)
               => cache[k].quote.status.confidence = "low"

\* a quote with the invalid-price note is served from the cache
C12_Witness ==
    \E c \in Calls :
        /\ calls[c].pc = "done"
        /\ calls[c].hit
        /\ calls[c].ret.kind = "quote"
        /\ InList(NOTE_INVALID, calls[c].ret.quote.status.notes)

(***************************************************************************)
(* C13: a provider whose fetch or parse fails is followed by the next      *)
(* provider of the order, and the only exception get_quote raises is the   *)
(* exhaustion error, after every provider of the order was attempted.      *)
(***************************************************************************)
C13_AsStated ==
    \A c \in Calls :
        LET r == calls[c]
        IN  /\ (r.pc = "loop" /\ r.tried # << >>)
                   => /\ r.tried[Len(r.tried)].out # "data"
                      /\ r.idx = Len(r.tried) + 1
            /\ (r.pc = "done" /\ r.ret.kind = "error")
                   => /\ r.ret = ExhaustedResult(r.resolved.symbol, r.last_error)
                      /\ Len(r.tried) = Len(r.providers)

(***************************************************************************)
(* C14: without a BRAPI token no call invokes the BRAPI fetch, whatever    *)
(* its prefer value, and BRAPI is not among the providers the call         *)
(* records as attempted.                                                   *)
(***************************************************************************)
C14_NoTokenNoBrapi ==
    ~token
        => /\ fetch_count["brapi"] = 0
           /\ \A c \in Calls :
                  /\ calls[c].pc # "await_brapi"
                  /\ ~InList("brapi", calls[c].providers)
                  /\ \A i \in 1..Len(calls[c].tried) :
                         calls[c].tried[i].p # "brapi"

\* prefer = "brapi" without a token: the quote came from Yahoo, tried first
C14_Witness ==
    \E c \in Calls :
        /\ ~token
        /\ calls[c].prefer = Str("brapi")
        /\ Fetched(c)
        /\ calls[c].tried = << [p |-> "yahoo", out |-> "data"] >>

\* the default currency of an exchange
ExchangeCurrency(exchange) == IF exchange = "B3" THEN "BRL" ELSE "USD"

(***************************************************************************)
(* C15: when the provider that produced the returned quote reported no     *)
(* currency, the quote's price.currency is BRL for a symbol resolved to    *)
(* exchange B3 and USD otherwise.                                          *)
(***************************************************************************)
C15_AsStated ==
    \A c \in Calls :
        (Fetched(c) /\ Get(calls[c].raw, "currency") = None)
            => calls[c].ret.quote.price.currency
                   = Str(ExchangeCurrency(calls[c].resolved.exchange))

\* the keys under which an upstream reports a numeric field
UpstreamKeys(source, field) ==
    IF source = "brapi"
    THEN CASE field = "last" -> << "regularMarketPrice", "close", "price" >>
           [] field = "change_pct"
                -> << "regularMarketChangePercent", "changePercent" >>
           [] field = "volume" -> << "regularMarketVolume", "volume" >>
           [] OTHER -> << "marketCap" >>
    ELSE << field >>

\* what the upstream reported for a field: the first of its keys that the
\* payload holds with a value, None when there is none
Reported(source, raw, field) ==
    LET keys == UpstreamKeys(source, field)
        held == {i \in 1..Len(keys) : Get(raw, keys[i]) # None}
    IN  IF held = {} THEN None
        ELSE Get(raw, keys[CHOOSE i \in held : \A j \in held : i <= j])

\* the numeric field of a quote
QuoteField(q, field) ==
    CASE field = "last" -> q.price.last
      [] field = "change_pct" -> q.price.change_pct
      [] field = "volume" -> q.volume.value
      [] OTHER -> q.market_cap.value

(***************************************************************************)
(* C18: a numeric field the upstream reported as exactly zero is zero in   *)
(* the returned quote, and a numeric field of the quote is absent only if  *)
(* the upstream did not report it.                                         *)
(***************************************************************************)
C18_AsStated ==
    \A c \in Calls :
        Fetched(c)
            => \A field \in {"last", "change_pct", "volume", "market_cap"} :
                   LET q == calls[c].ret.quote
                       up == Reported(q.price.source, calls[c].raw, field)
                   IN  /\ up = Num(0) => QuoteField(q, field) = Num(0)
                       /\ QuoteField(q, field) = None => up = None

\* the text that says no more than that all sources failed for the symbol
AllFailedText(symbol) == "Todas as fontes falharam para " \o Text(symbol) \o ". "

(***************************************************************************)
(* C19: the error of an exhausted call, and the HTTP 502 detail made of    *)
(* it, holds no text of a provider's exception: it says only that all      *)
(* sources failed for the symbol.                                          *)
(***************************************************************************)
C19_AsStated ==
    \A c \in Calls :
        RanOut(c)
            => /\ calls[c].ret.error = AllFailedText(calls[c].resolved.symbol)
               /\ HttpDetail(calls[c].ret)
                      = AllFailedText(calls[c].resolved.symbol)

\* the key of a call, written out from the pair (symbol, prefer or "auto")
KeyOfPair(pair) == Text(pair[1]) \o ":" \o pair[2]

\* the step in which call c, having missed the cache, ends
MissEnds(c) ==
    /\ calls[c].pc # "done"
    /\ calls'[c].pc = "done"
    /\ ~calls'[c].hit

(***************************************************************************)
(* C20 as stated: when a call that missed the cache ends, the cache holds  *)
(* a live entry under the call's key, whether a provider succeeded or all  *)
(* were exhausted.                                                         *)
(***************************************************************************)
C20_AsStated ==
    [][\A c \in Calls :
          MissEnds(c)
              => cache_has(cache', KeyOfPair(PairOf(calls'[c].resolved,
                                                    calls'[c].prefer)))]_vars

(***************************************************************************)
(* C20 amended: when a call that missed the cache returns a quote, the     *)
(* cache holds that quote under the call's key with a fresh expiry; a      *)
(* call that ends in exhaustion leaves the cache as it was.                *)
(***************************************************************************)
C20_MissStoresOnSuccess ==
    [][\A c \in Calls :
          LET key == KeyOfPair(PairOf(calls'[c].resolved, calls'[c].prefer))
          IN  MissEnds(c)
                  => IF calls'[c].ret.kind = "quote"
                     THEN /\ key \in DOMAIN cache'
                          /\ cache'[key] = [quote |-> calls'[c].ret.quote,
                                            age |-> 0]
                     ELSE cache' = cache]_vars

\* a call with prefer = "yahoo" has just stored the quote it returns
C20_Witness ==
    \E c \in Calls :
        /\ Fetched(c)
        /\ calls[c].prefer = Str("yahoo")
        /\ cache_has(cache, KeyOfPair(PairOf(calls[c].resolved, calls[c].prefer)))
        /\ cache[KeyOfPair(PairOf(calls[c].resolved, calls[c].prefer))].quote
               = calls[c].ret.quote

\* the symbols a batch request asks for
AskedSymbols == Truncated(WATCHLISTS[wl.list], wl.limit)

\* the error marker of fetch_one, but for its note
IsErrorMarker(item) ==
    /\ item.price = [last |-> None, change_pct |-> None, currency |-> None,
                     source |-> "error"]
    /\ item.market_cap = [value |-> None, currency |-> None]
    /\ item.volume = [value |-> None]
    /\ item.status.confidence = "low"

InGetQuote == {i \in DOMAIN wl.task : wl.task[i] = "quote"}

\* A batch in which every get_quote call completes: the event loop runs a
\* task that can run, and an awaited BRAPI request ends, with an answer or
\* with its timeout.  No step of a batch can be taken twice, so asking for
\* some step of NextWatch while one is possible asks for each of them.
SpecWatchFair == InitWatch /\ [][NextWatch]_vars /\ WF_vars(NextWatch)

(***************************************************************************)
(* C17: during one api_watchlist call at most 5 of its get_quote calls     *)
(* are in progress at any time; and when every get_quote call completes,   *)
(* the batch completes, with one get_quote call made for every item (the   *)
(* slot of the semaphore is given back after a quote and after an error).  *)
(***************************************************************************)
C17_BoundedAndCompletes ==
    /\ [](Cardinality(InGetQuote) <= WATCH_CONCURRENCY)
    /\ [](wl.pc = "returned" => ncalls = Len(wl.task))
    /\ ((wl.pc = "gather") ~> (wl.pc = "returned"))

\* the task after the fifth waited for a slot and is now in get_quote with
\* four others, after a task whose get_quote raised gave its slot back
C17_Witness ==
    /\ wl.pc = "gather"
    /\ WATCH_CONCURRENCY + 1 \in DOMAIN wl.task
    /\ wl.task[WATCH_CONCURRENCY + 1] = "quote"
    /\ Cardinality(InGetQuote) = WATCH_CONCURRENCY
    /\ \E i \in DOMAIN wl.task :
           wl.task[i] = "finished" /\ wl.rets[i].kind = "error"

\* a get_quote call that has neither returned nor raised
InProgress(c) == calls[c].pc \notin {"idle", "done"}

(***************************************************************************)
(* C21 as stated: every get_quote call eventually returns or raises, also  *)
(* when an upstream never responds, because every provider attempt ends    *)
(* at its timeout at the latest and counts as no data.  A run refutes it   *)
(* when it reaches a state in which a call is in progress and no step of   *)
(* the program is possible: the call waits for an answer with no deadline. *)
(***************************************************************************)
C21_AsStated ==
    (\E c \in Calls : InProgress(c)) => ENABLED Next

\* a get_quote call that waits for the answer of an upstream provider
WaitsForUpstream(c) == calls[c].pc \in {"await_brapi", "in_fetch"}

(***************************************************************************)
(* C22 as stated: get_quote suspends at every provider network call, so a  *)
(* call that waits for BRAPI, Yahoo or Stooq does not hold the event loop  *)
(* and the loop can run the other calls and requests meanwhile.            *)
(***************************************************************************)
C22_AsStated ==
    \A c \in Calls : WaitsForUpstream(c) => running # c

\* a quote as an adapter and the validation leave it
WellFormedQuote(q) ==
    /\ q.price.source \in {"brapi", "yahoo", "stooq"}
    /\ q.status.confidence \in {"high", "medium", "low"}
    /\ Truthy(q.price.currency)
    /\ q.market_cap.currency = q.price.currency

\* the cache key of call c
KeyOf(r) == cache_key(r.resolved, r.prefer)

(***************************************************************************)
(* C23: there is no single-flight de-duplication.  A call that finds no    *)
(* live entry under its key starts its own provider attempts at once,      *)
(* whatever other calls with the same (symbol, prefer) are in flight; a    *)
(* call that fetched a quote writes that quote under the shared key,       *)
(* whatever another call wrote there before, and leaves the other entries  *)
(* alone; and every entry of the cache is at all times one well-formed     *)
(* quote, the one most recently stored for its pair.                       *)
(***************************************************************************)
C23_NoSingleFlight ==
    /\ [](\A k \in DOMAIN cache :
             /\ WellFormedQuote(cache[k].quote)
             /\ \E pair \in DOMAIN last_stored :
                    /\ KeyOfPair(pair) = k
                    /\ last_stored[pair].quote = cache[k].quote)
    /\ [][\A c \in Calls :
             /\ (/\ calls[c].pc = "idle"
                 /\ calls'[c].pc # "idle"
                 /\ ~cache_has(cache, KeyOf(calls'[c])))
                    => (calls'[c].pc = "loop" /\ running' = c)
             /\ (MissEnds(c) /\ calls'[c].ret.kind = "quote")
                    => /\ cache'[KeyOf(calls'[c])].quote = calls'[c].ret.quote
                       /\ \A k \in DOMAIN cache \ {KeyOf(calls'[c])} :
                              k \in DOMAIN cache' /\ cache'[k] = cache[k]]_vars

\* two calls with the same (symbol, prefer) have both missed the cache and
\* each awaits its own BRAPI request
C23_Witness ==
    \E c, d \in Calls :
        /\ c # d
        /\ calls[c].pc = "await_brapi"
        /\ calls[d].pc = "await_brapi"
        /\ KeyOf(calls[c]) = KeyOf(calls[d])
        /\ fetch_count["brapi"] = 2
        /\ KeyOf(calls[c]) \notin DOMAIN cache

\* the quote the adapter of the answering provider built from the raw
\* answer of call r, before validation
Parsed(r) ==
    IF r.ret.quote.price.source = "brapi"
    THEN parse_brapi(r.resolved.symbol, r.raw)
    ELSE IF r.ret.quote.price.source = "yahoo"
    THEN parse_yahoo(r.resolved.symbol, r.raw)
    ELSE parse_stooq(r.resolved.symbol, r.raw)

(***************************************************************************)
(* C24: the quote a fetching call returns is the validated form of what    *)
(* the adapter built, and before validation a BRAPI quote has confidence   *)
(* "high", a Yahoo quote "high" when the adapter recorded no caveat note   *)
(* and "medium" when it recorded one, and a Stooq quote "medium" with the  *)
(* note that the value is the last closing price.                          *)
(***************************************************************************)
C24_AdapterConfidence ==
    \A c \in Calls :
        Fetched(c) =>
            LET pre == Parsed(calls[c])
                src == pre.price.source
            IN  /\ calls[c].ret.quote = validate(pre)
                /\ src = "brapi" => pre.status.confidence = "high"
                /\ src = "yahoo" =>
                       pre.status.confidence
                           = IF pre.status.notes = << >> THEN "high" ELSE "medium"
                /\ src = "stooq" =>
                       /\ pre.status.confidence = "medium"
                       /\ \E i \in 1..Len(pre.status.notes) :
                              pre.status.notes[i] = NOTE_STOOQ

\* Yahoo answered without a daily change: the adapter recorded its caveat
\* and the quote is returned with confidence "medium"
C24_Witness ==
    \E c \in Calls :
        /\ Fetched(c)
        /\ Parsed(calls[c]).price.source = "yahoo"
        /\ Parsed(calls[c]).status.notes = << NOTE_NO_CHANGE >>
        /\ Parsed(calls[c]).status.confidence = "medium"
        /\ Parsed(calls[c]).price.last = Num(5)

(***************************************************************************)
(* C25 as stated, for the quotes the adapters build: whenever the quote    *)
(* an adapter built has no change_pct, the adapter has appended a caveat   *)
(* note to the quote's notes.                                              *)
(***************************************************************************)
C25_AsStated ==
    \A c \in Calls :
        (Fetched(c) /\ Parsed(calls[c]).price.change_pct = None)
            => Parsed(calls[c]).status.notes # << >>

\* call c of data_provider.get_quote has ended after Yahoo, BRAPI and
\* Stooq all yielded nothing
DpExhausted(c) ==
    /\ dp.calls[c].pc = "done"
    /\ ~dp.calls[c].hit
    /\ Len(dp.calls[c].tried) = 3
    /\ \A i \in 1..3 : dp.calls[c].tried[i].out \in {"none", "notoken"}

(***************************************************************************)
(* C26: data_provider.get_quote never raises: every call ends with a       *)
(* payload.  A call for which Yahoo, BRAPI and Stooq all yield nothing     *)
(* returns the payload with price.last, change_pct, market_cap and volume  *)
(* absent, source "unavailable" and confidence "none", on the first and    *)
(* on every later exhausted call.                                          *)
(***************************************************************************)
C26_NeverRaises ==
    \A c \in DpCalls :
        /\ dp.calls[c].pc = "done" => dp.calls[c].ret.kind = "payload"
        /\ DpExhausted(c) =>
               LET d == dp.calls[c].ret.data
               IN  /\ d.price.last = None
                   /\ d.price.change_pct = None
                   /\ d.market_cap = None
                   /\ d.volume = None
                   /\ d.price.source = "unavailable"
                   /\ d.confidence = "none"
                   /\ d.ticker = dp.calls[c].symbol

\* a second exhausted call, after Stooq was asked twice and a provider
\* failed with an exception
C26_Witness ==
    \E c \in DpCalls :
        /\ DpExhausted(c)
        /\ dp.ncalls >= 2
        /\ dp.contacts["stooq"] = 2
        /\ dp.calls[c].tried[2].out = "none"
        /\ dp.calls[c].ret.data.price.source = "unavailable"

\* math.isfinite fails on v
NonFinite(v) == v.t \in {"nan", "inf"}

(***************************************************************************)
(* C27 as stated: a quote returned by get_quote whose price.last is NaN,   *)
(* +infinity or -infinity has confidence "low" and carries the             *)
(* invalid-price note.                                                     *)
(***************************************************************************)
C27_AsStated ==
    \A c \in Calls :
        (calls[c].pc = "done" /\ calls[c].ret.kind = "quote"
         /\ NonFinite(calls[c].ret.quote.price.last))
        => /\ calls[c].ret.quote.status.confidence = "low"
           /\ \E i \in DOMAIN calls[c].ret.quote.status.notes :
                  calls[c].ret.quote.status.notes[i] = NOTE_INVALID

\* call c has returned a quote built from a provider payload that reports
\* no currency (the key is missing, or holds None or "")
CurrencyInferred(c) ==
    /\ calls[c].pc = "done"
    /\ calls[c].ret.kind = "quote"
    /\ ~calls[c].hit
    /\ ~Truthy(Get(calls[c].raw, "currency"))

(***************************************************************************)
(* C28 as stated: whenever the provider that produced the returned quote   *)
(* reported no currency, the quote returned by get_quote carries the       *)
(* note "Moeda inferida automaticamente".                                  *)
(***************************************************************************)
C28_AsStated ==
    \A c \in Calls :
        CurrencyInferred(c)
        => \E i \in DOMAIN calls[c].ret.quote.status.notes :
               calls[c].ret.quote.status.notes[i] = NOTE_CURRENCY

\* in this step call c enters the fetch function of provider p
Attempts(c, p) ==
    /\ running = c
    /\ calls[c].pc = "loop"
    /\ calls'[c].pc \in {"await_brapi", "in_fetch"}
    /\ calls[c].idx \in DOMAIN calls[c].providers
    /\ calls[c].providers[calls[c].idx] = p
    /\ fetch_count'[p] = fetch_count[p] + 1

(***************************************************************************)
(* C29: within one get_quote call each provider of the order is attempted  *)
(* at most once and in order, and none is attempted after one has yielded  *)
(* data; a call starts with no attempt made and an ended call makes none.  *)
(* Every entry into a fetch function is made by the call that holds the    *)
(* loop, for the provider next in its order, which it has not attempted    *)
(* before, while no earlier attempt of it has yielded data; the attempts   *)
(* recorded for a call are those of its own order, one per position.       *)
(***************************************************************************)
C29_OneAttemptEach ==
    /\ [](\A c \in Calls :
            LET r == calls[c]
            IN  /\ Len(r.tried) <= Len(r.providers)
                /\ \A i, j \in DOMAIN r.tried :
                       /\ r.tried[i].p = r.providers[i]
                       /\ (i # j => r.tried[i].p # r.tried[j].p)
                       /\ (r.tried[i].out = "data"
                              => (i = Len(r.tried) /\ r.pc = "done")))
    /\ [][/\ \A p \in {"brapi", "yahoo", "stooq"} :
               fetch_count'[p] # fetch_count[p]
               => \E c \in Calls :
                      /\ Attempts(c, p)
                      /\ calls[c].idx = Len(calls[c].tried) + 1
                      /\ \A i \in DOMAIN calls[c].tried :
                             /\ calls[c].tried[i].p # p
                             /\ calls[c].tried[i].out # "data"
                      /\ \A d \in Calls \ {c} : calls'[d] = calls[d]
          /\ \A c \in Calls :
               /\ (calls[c].pc = "idle" /\ calls'[c].pc # "idle")
                      => /\ calls'[c].tried = << >>
                         /\ calls'[c].hit \/ calls'[c].idx = 1
               /\ (calls[c].pc # "idle" /\ calls'[c].pc # "idle")
                      => \/ calls'[c].tried = calls[c].tried
                         \/ /\ Len(calls'[c].tried) = Len(calls[c].tried) + 1
                            /\ SubSeq(calls'[c].tried, 1, Len(calls[c].tried))
                                   = calls[c].tried
                            /\ calls[c].pc \in {"await_brapi", "in_fetch"}
                            /\ calls'[c].providers = calls[c].providers]_vars

\* a call went through brapi, yahoo and stooq without data and ended, and
\* the call after it went through the three again, from the first one on
C29_Witness ==
    \E c \in Calls :
        /\ ncalls = 2
        /\ calls[c].pc = "done"
        /\ Len(calls[c].providers) = 3
        /\ Len(calls[c].tried) = 3
        /\ \A p \in {"brapi", "yahoo", "stooq"} : fetch_count[p] = 2

\* q carries what _validate leaves behind: a price that _validate counts
\* as invalid is noted and has confidence "low", and a currency is set
Validated(q) ==
    /\ (q.price.last # None /\ InvalidPrice(q.price.last))
           => /\ q.status.confidence = "low"
              /\ \E i \in DOMAIN q.status.notes :
                     q.status.notes[i] = NOTE_INVALID
    /\ Truthy(q.price.currency)

(***************************************************************************)
(* C30: when a call that missed the cache has obtained data, the entry     *)
(* under its key is the quote it returns, which is what _validate made of  *)
(* the adapter's quote, stored with a fresh expiry in place of whatever    *)
(* entry was under the key, an entry another call stored in the meantime   *)
(* included; and every quote in the cache has been through _validate.      *)
(***************************************************************************)
C30_StoresValidated ==
    /\ [](\A k \in DOMAIN cache : Validated(cache[k].quote))
    /\ [](\A c \in Calls :
            Fetched(c)
            => /\ KeyOf(calls[c]) \in DOMAIN cache
               /\ cache[KeyOf(calls[c])]
                      = [quote |-> validate(Parsed(calls[c])), age |-> 0]
               /\ calls[c].ret.quote = cache[KeyOf(calls[c])].quote)
    /\ [][\A c \in Calls :
             (/\ MissEnds(c)
              /\ calls'[c].ret.kind = "quote"
              /\ KeyOf(calls'[c]) \in DOMAIN cache)
             => /\ cache'[KeyOf(calls'[c])].quote = calls'[c].ret.quote
                /\ cache'[KeyOf(calls'[c])].age = 0
                /\ DOMAIN cache' = DOMAIN cache]_vars

\* a call awaited BRAPI while another call stored a quote under the same
\* key; it has now put its own quote, which validation lowered to "low",
\* in that entry's place
C30_Witness ==
    \E c \in Calls :
        LET pair == PairOf(calls[c].resolved, calls[c].prefer)
        IN  /\ Fetched(c)
            /\ ncalls = 2
            /\ pair \in DOMAIN first_ret
            /\ first_ret[pair].age = 0
            /\ first_ret[pair].quote # calls[c].ret.quote
            /\ calls[c].ret.quote.price.source = "brapi"
            /\ calls[c].ret.quote # Parsed(calls[c])
            /\ calls[c].ret.quote.status.confidence = "low"
            /\ cache[KeyOf(calls[c])].quote = calls[c].ret.quote

(***************************************************************************)
(* The two get_quote functions side by side: a run is one of              *)
(* QuoteOrchestrator.get_quote (a ticker and a prefer value asked for      *)
(* MaxCalls times) or one of data_provider.get_quote.                      *)
(***************************************************************************)
\* the run is one of the orchestrator
RunsOrchestrator == work.budget > 0

InitTTL == Init \/ InitDP

NextTTL ==
    \/ RunsOrchestrator /\ Next
    \/ ~RunsOrchestrator /\ NextDP

SpecTTL == InitTTL /\ [][NextTTL]_vars

\* in this step call c of data_provider.get_quote is made
DpEnters(c) == dp.calls[c].pc = "idle" /\ dp'.calls[c].pc # "idle"

(***************************************************************************)
(* C31: a cache entry whose age has reached the TTL (30 s in               *)
(* QuoteOrchestrator, 60 s in data_provider.get_quote) is never served,    *)
(* and a call made for its key after that contacts providers again.  In    *)
(* the orchestrator every entry the cache shows is younger than the TTL,   *)
(* a quote is served from an entry younger than the TTL only, a call that  *)
(* finds no such entry goes to its provider loop, and the first thing it   *)
(* does there is to enter a fetch function.  In data_provider a call is    *)
(* answered from the cache exactly when the entry of its symbol is         *)
(* younger than 60 s, and goes on to ask Yahoo otherwise.                  *)
(***************************************************************************)
C31_ExpiredNotServed ==
    /\ [](\A k \in DOMAIN cache : cache[k].age < CACHE_TTL)
    /\ [][\A c \in Calls :
             /\ HitStep(c)
                    => /\ KeyOf(calls[c]) \in DOMAIN cache
                       /\ cache[KeyOf(calls[c])].age < CACHE_TTL
                       /\ calls'[c].ret.quote = cache[KeyOf(calls[c])].quote
                       /\ fetch_count' = fetch_count
             /\ (/\ calls[c].pc = "idle"
                 /\ calls'[c].pc # "idle"
                 /\ ~(/\ KeyOf(calls'[c]) \in DOMAIN cache
                      /\ cache[KeyOf(calls'[c])].age < CACHE_TTL))
                    => /\ calls'[c].pc = "loop"
                       /\ ~calls'[c].hit
                       /\ calls'[c].providers # << >>
             /\ (/\ calls[c].pc = "loop"
                 /\ calls[c].tried = << >>
                 /\ calls'[c] # calls[c])
                    => \E p \in {"brapi", "yahoo", "stooq"} :
                           fetch_count'[p] = fetch_count[p] + 1]_vars
    /\ [][\A c \in DpCalls :
             /\ DpEnters(c)
                    => LET symbol == dp'.calls[c].symbol
                       IN  IF /\ symbol \in DOMAIN dp.cache
                              /\ dp.cache[symbol].age < DP_TTL
                           THEN /\ dp'.calls[c].hit
                                /\ dp'.calls[c].pc = "done"
                                /\ dp'.calls[c].ret.data = dp.cache[symbol].data
                                /\ dp'.contacts = dp.contacts
                           ELSE /\ ~dp'.calls[c].hit
                                /\ dp'.calls[c].pc = "yahoo"
             /\ (dp.calls[c].pc = "yahoo" /\ dp'.calls[c] # dp.calls[c])
                    => dp'.contacts["yahoo"] = dp.contacts["yahoo"] + 1]_vars

\* Without a token calls run one after the other.  The first call got its
\* quote from Yahoo (Stooq was never asked) and stored it; the second call,
\* made for the same key after the entry ran out, fetched from Yahoo again.
C31_Witness ==
    \E c \in Calls :
        /\ RunsOrchestrator
        /\ ~token
        /\ ncalls = 2
        /\ Fetched(c)
        /\ calls[c].providers = << "yahoo", "stooq" >>
        /\ fetch_count["yahoo"] = 2
        /\ fetch_count["stooq"] = 0

\* data_provider: the entry of the symbol is 60 s old and the call made
\* for it is about to ask Yahoo
C31_WitnessDP ==
    \E c \in DpCalls :
        /\ dp.calls[c].pc = "yahoo"
        /\ dp.calls[c].symbol \in DOMAIN dp.cache
        /\ dp.cache[dp.calls[c].symbol].age = DP_TTL
        /\ dp.cache[dp.calls[c].symbol].data.price.source = "yahoo"

(***************************************************************************)
(* Symbols and prefer values with a colon in them.  /api/quote takes q     *)
(* and prefer as free text: q = "a:b" resolves to the symbol "A:B", and    *)
(* prefer reaches get_quote as it was typed.                               *)
(***************************************************************************)
ColonTickers == { << "a", ":", "b" >>, << "a" >> }

ColonPrefers == {None, Str("auto"), Str("c"), Str("B:c")}

\* the tickers and prefer values above, asked for in any order
InitKey ==
    /\ dp = DpStart
    /\ ResolverOff
    /\ token \in BOOLEAN
    /\ work = Workload({resolve_symbol(t).rs : t \in ColonTickers},
                       ColonPrefers, MaxCalls, BrapiPriced, YahooPriced,
                       {Response("none", EmptyDict)})
    /\ OrchestratorStart

SpecKey == InitKey /\ [][Next]_vars

\* call c was served from the cache
Served(c) ==
    /\ calls[c].pc = "done"
    /\ calls[c].hit
    /\ calls[c].ret.kind = "quote"

\* the key built from the pair differs for any two different pairs of the
\* run
KeysDiffer ==
    \A r1, r2 \in work.resolved, p1, p2 \in work.prefers :
        PairOf(r1, p1) # PairOf(r2, p2)
            => cache_key(r1, p1) # cache_key(r2, p2)

(***************************************************************************)
(* C32 as stated: two calls read or write the same cache entry only if     *)
(* they have the same resolved symbol and the same (prefer or "auto"), the *)
(* key being different for different pairs: what a call is served from     *)
(* the cache is a quote that was stored for its own pair.                  *)
(***************************************************************************)
C32_AsStated ==
    \A c \in Calls :
        Served(c)
        => LET pair == PairOf(calls[c].resolved, calls[c].prefer)
           IN  /\ pair \in DOMAIN last_stored
               /\ last_stored[pair].quote = calls[c].ret.quote

\* the providers of data_provider.get_quote, in the order it goes
\* through them
DP_ORDER == << "yahoo", "brapi", "stooq" >>

(***************************************************************************)
(* C33: data_provider.get_quote goes through Yahoo, BRAPI and Stooq in     *)
(* this order, BRAPI being contacted only when a token is configured; the  *)
(* first of them that has data ends the call: its payload is returned and  *)
(* stored under the symbol, and no later provider is contacted.            *)
(***************************************************************************)
C33_YahooBrapiStooq ==
    /\ [](\A c \in DpCalls :
            LET r == dp.calls[c]
            IN  /\ Len(r.tried) <= 3
                /\ \A i \in DOMAIN r.tried :
                       /\ r.tried[i].p = DP_ORDER[i]
                       /\ (r.tried[i].out = "notoken")
                              = (r.tried[i].p = "brapi" /\ ~token)
                       /\ r.tried[i].out = "payload"
                              => /\ i = Len(r.tried)
                                 /\ r.pc = "done"
                                 /\ r.ret.kind = "payload"
                                 /\ r.ret.data.price.source = DP_ORDER[i]
                                 /\ r.symbol \in DOMAIN dp.cache
                                 /\ dp.cache[r.symbol]
                                        = [data |-> r.ret.data, age |-> 0]
                /\ r.pc = "await_brapi" => (token /\ Len(r.tried) = 1)
                /\ r.pc = "stooq" => Len(r.tried) = 2)
    /\ [](~token => dp.contacts["brapi"] = 0)
    /\ [][\A p \in {"yahoo", "brapi", "stooq"} :
             dp'.contacts[p] # dp.contacts[p]
             => /\ dp'.contacts[p] = dp.contacts[p] + 1
                /\ \A o \in {"yahoo", "brapi", "stooq"} \ {p} :
                       dp'.contacts[o] = dp.contacts[o]
                /\ \E c \in DpCalls :
                       /\ dp.calls[c].pc
                              = (IF p = "brapi" THEN "await_brapi" ELSE p)
                       /\ \A i \in DOMAIN dp.calls[c].tried :
                              dp.calls[c].tried[i].out # "payload"
                       /\ Len(dp'.calls[c].tried) > Len(dp.calls[c].tried)
                       /\ dp'.calls[c].tried[Len(dp.calls[c].tried) + 1].p = p]_vars

\* with a token: Yahoo had nothing, BRAPI had data; its payload was
\* returned and stored, and Stooq was not contacted
C33_Witness ==
    \E c \in DpCalls :
        /\ token
        /\ dp.calls[c].pc = "done"
        /\ Len(dp.calls[c].tried) = 2
        /\ dp.calls[c].tried[1] = [p |-> "yahoo", out |-> "none"]
        /\ dp.calls[c].tried[2] = [p |-> "brapi", out |-> "payload"]
        /\ dp.calls[c].ret.data.price.last = Num(5)
        /\ dp.cache[dp.calls[c].symbol].data = dp.calls[c].ret.data
        /\ dp.contacts = [yahoo |-> 1, brapi |-> 1, stooq |-> 0]

(***************************************************************************)
(* Notes of a quote on its way through get_quote                           *)
(***************************************************************************)
\* the sequence s is the beginning of the sequence t
IsPrefix(s, t) ==
    /\ Len(s) <= Len(t)
    /\ SubSeq(t, 1, Len(s)) = s

\* how many times the note n stands in notes
Occurrences(notes, n) == Cardinality({i \in DOMAIN notes : notes[i] = n})

(***************************************************************************)
(* C34: validation only appends to a quote's notes.  The notes the adapter *)
(* recorded are the beginning, unchanged, of the notes of the quote a      *)
(* fetching call returns, and what follows them is what _validate added;   *)
(* a call served from the cache returns exactly the notes the quote had    *)
(* when it was stored, the step leaves the stored notes as they were, and  *)
(* no returned quote carries the invalid-price note twice.                 *)
(***************************************************************************)
C34_NotesOnlyAppended ==
    /\ [](\A c \in Calls :
            Fetched(c)
            => /\ IsPrefix(Parsed(calls[c]).status.notes,
                           calls[c].ret.quote.status.notes)
               /\ Len(calls[c].ret.quote.status.notes)
                      <= Len(Parsed(calls[c]).status.notes) + 2)
    /\ [](\A c \in Calls :
            (calls[c].pc = "done" /\ calls[c].ret.kind = "quote")
            => Occurrences(calls[c].ret.quote.status.notes, NOTE_INVALID) <= 1)
    /\ [][\A c \in Calls :
             LET pair == PairOf(calls'[c].resolved, calls'[c].prefer)
                 key == KeyOf(calls'[c])
             IN  HitStep(c)
                 => /\ pair \in DOMAIN last_stored
                    /\ calls'[c].ret.quote.status.notes
                           = last_stored[pair].quote.status.notes
                    /\ key \in DOMAIN cache'
                    /\ cache'[key].quote.status.notes
                           = last_stored[pair].quote.status.notes]_vars

\* Stooq's closing price of zero was noted as invalid after the adapter's
\* own note when the quote was fetched; a later call is served that quote
\* from the cache, with the same two notes
C34_Witness ==
    \E c \in Calls :
        LET pair == PairOf(calls[c].resolved, calls[c].prefer)
        IN  /\ calls[c].pc = "done"
            /\ calls[c].hit
            /\ calls[c].ret.kind = "quote"
            /\ calls[c].ret.quote.status.notes = << NOTE_STOOQ, NOTE_INVALID >>
            /\ pair \in DOMAIN last_stored
            /\ last_stored[pair].quote.status.notes
                   = << NOTE_STOOQ, NOTE_INVALID >>

(***************************************************************************)
(* C35 as stated: every quote that get_quote returns, fetched or read from *)
(* the cache, has a last price; a provider's data without a last price is  *)
(* never the data a call ends its fallback with.                           *)
(***************************************************************************)
C35_AsStated ==
    \A c \in Calls :
        (calls[c].pc = "done" /\ calls[c].ret.kind = "quote")
        => /\ calls[c].ret.quote.price.last # None
           /\ Fetched(c) => Parsed(calls[c]).price.last # None

====
